---- MODULE Spec2Model ----
(***************************************************************************)
(* The ifyoulike pipeline: execute_searches and its helpers                *)
(* (src/src/search_executor.py), the MusicBrainz lookups and their rate    *)
(* limiter (src/src/musicBrainz/search_tools.py, client.py), the           *)
(* extraction and the pairing of results with metadata                     *)
(* (src/src/llm_linker.py, src/src/main.py), and the playlist side         *)
(* (src/src/spotify_resolver.py, src/src/playlist_generator.py).           *)
(***************************************************************************)
EXTENDS Integers, Sequences, FiniteSets, TLC

\* ------------------------------------------------------------------ bounds
\* Number of search requests (song + album + artist) of the text unit
\* execute_searches is called on in SpecCall and SpecRerun.
MaxRequests == 2
\* Total number of search requests in one batch of text units in Spec.
MaxBatchRequests == 1
\* Number of text units in one batch.
MaxUnits == 2
\* Longest candidate list handed to _get_top_match in SpecTop.
MaxCands == 4
\* Number of texts in one batch of process_comments_file in SpecLinker.
MaxTexts == 4
\* SpecRate: threads calling into the catalog clients, requests sent in
\* all, and the last second of the clock.
MaxCallers == 2
MaxSent == 3
MaxTime == 3
\* Distinct Spotify tracks (SpecDirect, SpecDedup).
MaxTracks == 3
\* SpecDirect: entries of the results file, and markdown links in all.
MaxEntries == 2
MaxLinks == 2
MaxItems == 4
MaxBatchSize == 3
MaxPlaylistItems == 4
MaxListLen == 201
MaxAlbumTracks == 3
MaxOverflow == 2
MaxLimit == 2
MaxMatches == 2

\* Entity names the extractor may produce. "" stands for a missing or empty
\* artist_name (search.get("artist_name") is falsy for both).
Names == {"Money", "Pink Floyd"}
NoArtist == ""
\* Names an artist request may carry: the above and one differing from
\* "Money" in letter case only.
ArtistNames == Names \cup {"money"}
\* str.lower and str.strip on the names of the model.
Lower(name) ==
  CASE name = "Money" -> "money"
    [] name = " MONEY " -> " money "
    [] name = "Time" -> "time"
    [] name = "Pink Floyd" -> "pink floyd"
    [] name = "PINK FLOYD " -> "pink floyd "
    [] OTHER -> name
Strip(name) ==
  CASE name = " money " -> "money"
    [] name = " MONEY " -> "MONEY"
    [] name = "pink floyd " -> "pink floyd"
    [] name = "PINK FLOYD " -> "PINK FLOYD"
    [] OTHER -> name
\* Catalog relevance scores.
Scores == {3, 7, 9}

\* ------------------------------------------------------------- data shapes
SongRequests == [song_title : Names, artist_name : Names \cup {NoArtist}]
AlbumRequests == [album_title : Names, artist_name : Names \cup {NoArtist}]

RECURSIVE SeqsOfLen(_, _)
SeqsOfLen(S, n) ==
  IF n = 0 THEN {<<>>}
  ELSE {Append(s, x) : s \in SeqsOfLen(S, n - 1), x \in S}

Range(s) == {s[k] : k \in 1..Len(s)}

\* The extractor's output for one text unit (SearchResults), with at most b
\* requests in all.
SearchResultsUpTo(b) ==
  UNION {UNION {UNION {
      [song_searches : SeqsOfLen(SongRequests, s),
       album_searches : SeqsOfLen(AlbumRequests, a),
       artist_searches : SeqsOfLen(ArtistNames, r)]
    : r \in 0..(b - s - a)} : a \in 0..(b - s)} : s \in 0..b}

RequestCount(x) ==
  Len(x.song_searches) + Len(x.album_searches) + Len(x.artist_searches)

\* Batches of n text units holding at most b requests in all.
RECURSIVE UnitSeqs(_, _)
UnitSeqs(n, b) ==
  IF n = 0 THEN {<<>>}
  ELSE UNION {{<<x>> \o rest : rest \in UnitSeqs(n - 1, b - RequestCount(x))}
              : x \in SearchResultsUpTo(b)}

Batches == UNION {UnitSeqs(n, MaxBatchRequests) : n \in 0..MaxUnits}

\* ------------------------------------------------------------- extraction
\* What the classifier call of one text unit ends in: an exception (the API
\* call or json.loads raising), or the parsed JSON object.
EmptySearches ==
  [song_searches |-> <<>>, album_searches |-> <<>>, artist_searches |-> <<>>]
Raised == [raised |-> TRUE, content |-> EmptySearches]
Reply(content) == [raised |-> FALSE, content |-> content]

\* The replies to one batch of texts; a text with nothing to extract may
\* be answered by an empty object or by a failure.
ReplyBatches ==
  UNION {{[k \in 1..Len(us) |-> IF k \in F THEN Raised ELSE Reply(us[k])]
          : F \in SUBSET {k \in 1..Len(us) : us[k] = EmptySearches}}
         : us \in Batches}

\* llm_linker.py:86-106, process_single_text: the except clause returns the
\* three empty lists.
extract_searches(reply) ==
  IF reply.raised THEN EmptySearches ELSE reply.content

\* llm_linker.py:108-111: asyncio.gather returns the results in the order
\* of the texts; and a batch that leaves the failed texts out.
ExtractBatchSkippingFailures(rs) ==
  LET ok == SelectSeq(rs, LAMBDA r : ~r.raised)
  IN [k \in 1..Len(ok) |-> ok[k].content]
extract_searches_batch(rs) == [k \in 1..Len(rs) |-> extract_searches(rs[k])]

\* --------------------------------------------------------------- catalog
\* A query sent to MusicBrainz: the entity type and the quoted fields.  An
\* artist query carries the name in title; a falsy artist_name is left out
\* of the query string, so NoArtist stands for "no artist clause".
Queries == [type : {"artist", "recording", "release-group"},
            title : ArtistNames, artist : Names \cup {NoArtist}]

ArtistQuery(artist_name) ==
  [type |-> "artist", title |-> artist_name, artist |-> NoArtist]
SongQuery(song_title, artist_name) ==
  [type |-> "recording", title |-> song_title, artist |-> artist_name]
AlbumQuery(album_title, artist_name) ==
  [type |-> "release-group", title |-> album_title, artist |-> artist_name]

\* What _make_request gives for a query: raise_for_status raises ("error"),
\* or the JSON body, without the result key ("missing") or with the list of
\* candidates, given by their scores in catalog order ("cands").
Unasked == [kind |-> "unasked", scores |-> <<>>]
HttpError == [kind |-> "error", scores |-> <<>>]
MissingKey == [kind |-> "missing", scores |-> <<>>]
Candidates(scores) == [kind |-> "cands", scores |-> scores]
Responses == {HttpError, MissingKey, Candidates(<<>>), Candidates(<<7, 3, 9, 9>>)}

\* The catalog is frozen: a query asked again gets the answer it got before.
Answers(cat, q) == IF cat[q] = Unasked THEN Responses ELSE {cat[q]}

\* ---------------------------------------------------------- lookup results
\* Python values a search function returns: None, [] or a match dict.  A
\* match is identified by the query that found it and its place in the
\* catalog's list.
None == [kind |-> "None", query |-> ArtistQuery("Money"), index |-> 0, score |-> 0]
EmptyList == [kind |-> "list", query |-> ArtistQuery("Money"), index |-> 0, score |-> 0]
Match(q, k, score) == [kind |-> "dict", query |-> q, index |-> k, score |-> score]

\* The list comprehension building matches from the candidates; index is the
\* Python (0-based) position.
Matches(q, scores) == [k \in 1..Len(scores) |-> Match(q, k - 1, scores[k])]

\* max(results, key=score) keeps the first item and replaces it only by a
\* strictly greater one.
RECURSIVE MaxFrom(_, _, _)
MaxFrom(results, k, best) ==
  IF k > Len(results) THEN best
  ELSE MaxFrom(results, k + 1,
               IF results[k].score > best.score THEN results[k] ELSE best)

RECURSIVE MaxFromLast(_, _, _)
MaxFromLast(results, k, best) ==
  IF k > Len(results) THEN best
  ELSE MaxFromLast(results, k + 1,
                   IF results[k].score >= best.score THEN results[k] ELSE best)

GetTopMatchLastMax(results) ==
  IF results = <<>> THEN None ELSE MaxFromLast(results, 2, results[1])

_get_top_match(results) ==
  IF results = <<>> THEN None ELSE MaxFrom(results, 2, results[1])

\* search_artist returns None without the "artists" key; search_song and
\* search_album return [] without theirs.
search_artist(q, resp) ==
  IF resp.kind = "missing" THEN None ELSE _get_top_match(Matches(q, resp.scores))
search_song(q, resp) ==
  IF resp.kind = "missing" THEN EmptyList ELSE _get_top_match(Matches(q, resp.scores))
search_album(q, resp) ==
  IF resp.kind = "missing" THEN EmptyList ELSE _get_top_match(Matches(q, resp.scores))

\* Python truthiness of a lookup result (if match: / if not match).
TruthyNotNone(match) == match.kind # "None"
Truthy(match) == match.kind = "dict"

\* search_executor.py:95 and :57, the guard of the swapped lookup; and a
\* guard that forgets the test of the direct match.
ShouldSwapWhenArtist(match, artist_name) == artist_name # NoArtist
ShouldSwap(match, artist_name) == ~Truthy(match) /\ artist_name # NoArtist

\* search_executor.py:101 and :63, if swap_match: guarding the exchange and
\* its bookkeeping; and the same lines outside that if.
SwapAcceptedAlways(swap_match) == TRUE
SwapAccepted(swap_match) == Truthy(swap_match)

\* search_executor.py:108-109, :71-72 and :35-36: if match: append(match);
\* and an append made twice.
AppendIfMatchTwice(list, match) ==
  IF Truthy(match) THEN Append(Append(list, match), match) ELSE list
AppendIfMatch(list, match) ==
  IF Truthy(match) THEN Append(list, match) ELSE list

\* ------------------------------------------------------------------ state
VARIABLES
  found,          \* process_submission_and_comments returned data (main.py:61-67)
  units,          \* search_extraction_results: one SearchResults per text unit
  fresh,          \* the requests as extracted, before any in-place exchange
  catalog,        \* the answers the frozen catalog has given so far
  pc,             \* where control is
  u,              \* index of the text unit being resolved (main.py:159)
  i,              \* index of the request in the running for loop
  song_passes,    \* calls of execute_song_searches made by this execute_searches
  matches,        \* callee locals: song_matches / album_matches being built
  additional_artists,
  misidentified,
  song_matches,   \* execute_searches locals (search_executor.py:11-20)
  additional_artists_from_swapped_songs,
  songs_misidentified_as_artists,
  album_matches,
  additional_artists_from_swapped_albums,
  albums_misidentified_as_artists,
  artists_to_search,
  pending,        \* names of artists_to_search the for loop has not reached
  artist_matches,
  looked_up,      \* names passed to search_artist in this call
  swap_additional,     \* names appended to an additional_artists list in this call
  swap_misidentified,  \* names appended to a misidentified list in this call
  lookup_log,     \* names passed to search_artist in this call, in order
  n_queries,      \* catalog queries issued in this call
  swap_queries,   \* swapped (second) queries issued in this call
  last_queries,   \* the queries the latest lookup step issued, in order
  result,         \* the dict execute_searches returned
  execution_results,   \* main.py:159
  artifact_written,    \* json.dump of main.py:82-83 happened
  call_no,        \* calls of execute_searches made on the current object
  first_result,   \* SpecRerun: what the first call returned
  first_swapped,  \* SpecRerun: the first call performed a successful swap-retry
  top_input,      \* SpecTop: the list handed to _get_top_match
  top_result,     \* SpecTop: what it returned
  replies,        \* what the classifier gave for each text unit of the batch
  impl,           \* SpecLinker: which process_comments_file runs
  n_texts,        \* SpecLinker: len(texts) = len(batch_metadata) of the batch
  extraction_tasks,    \* SpecLinker: texts whose extraction has not completed
  batch_results,  \* SpecLinker: per entry, the text its searches came from
  results,        \* SpecLinker: the records process_comments_file returns
  batch_size,     \* the batch size process_comments_file is configured with
  launched,       \* how many texts had their extraction started
  now,            \* SpecRate: time.time(), in seconds
  last_request_time,   \* SpecRate: the attribute, per client object
  client_of,      \* SpecRate: the module-level client each thread calls
  tpc,            \* SpecRate: where each thread is in _rate_limit
  wake_at,        \* SpecRate: when the time.sleep of a thread ends
  sent,           \* SpecRate: the times at which requests passed the gate
  link_texts,     \* SpecDirect: per text, the tracks its markdown links name
  spotify_tracks, \* SpecDirect: per entry, the list the resolver returned
  e,              \* SpecDirect: index of the entry being processed
  track_ids,      \* the set _extract_track_ids builds
  sp_track,       \* SpecDedup: what sp.track gives for each candidate
  remaining,      \* SpecDedup: candidates the for loop has not reached
  visited,        \* SpecDedup: candidates in the order the loop reached them
  unique_tracks,  \* SpecDedup: the dict, as its items in insertion order
  track_list,     \* SpecDedup: track_ids after line 199 and the shuffle
  added,          \* SpecDedup: the tracks given to playlist_add_items
  batches,        \* the batches given to playlist_add_items, in call order
  remove_duplicates,   \* the argument of create_playlist_from_results
  tracks,         \* SpecExisting: the items of the existing playlist
  pos,            \* SpecExisting: the 0-based position the scan is at
  seen,           \* SpecExisting: key -> position and popularity kept
  duplicates,     \* SpecExisting: the positions marked for removal
  album_tracks,   \* the tracks of an album, in album order
  album_page,     \* results['items'] of the album_tracks call
  album_limit,    \* the argument album_limit
  popular_tracks, \* what _get_popular_tracks_from_album returned
  entry_matches,  \* per entry, its matches and what Spotify gives for them
  sample_top_tracks,   \* the argument sample_top_tracks
  artist_limit,   \* the argument artist_limit
  contributed     \* per processed match, the track ids it added

queryVars == <<n_queries, swap_queries, last_queries>>
callLocals == <<i, song_passes, matches, additional_artists, misidentified,
              song_matches, additional_artists_from_swapped_songs,
              songs_misidentified_as_artists, album_matches,
              additional_artists_from_swapped_albums,
              albums_misidentified_as_artists, artists_to_search, pending,
              artist_matches, looked_up, swap_additional, swap_misidentified,
              lookup_log>>
callVars == <<callLocals, queryVars>>
rerunVars == <<call_no, first_result, first_swapped>>
topVars == <<top_input, top_result>>
linkerVars == <<impl, n_texts, extraction_tasks, batch_results, results,
                batch_size, launched>>
rateVars == <<now, last_request_time, client_of, tpc, wake_at, sent>>
directVars == <<link_texts, spotify_tracks, e>>
existingVars == <<tracks, pos, seen, duplicates>>
sampleVars == <<album_tracks, album_page, album_limit, popular_tracks,
                entry_matches, sample_top_tracks, artist_limit, contributed>>
dedupVars == <<sp_track, remaining, visited, unique_tracks, track_list, added,
               batches, remove_duplicates, existingVars, sampleVars>>
playlistVars == <<directVars, track_ids, dedupVars>>
auxVars == <<replies, linkerVars, rateVars, playlistVars>>
vars == <<found, units, fresh, catalog, pc, u, callVars, result,
          execution_results, artifact_written, rerunVars, topVars, auxVars>>

NoResult == [artists |-> <<>>, songs |-> <<>>, albums |-> <<>>]

\* The locals of a call of execute_searches before its first statement.
CallReset ==
  /\ i = 1
  /\ song_passes = 0
  /\ matches = <<>>
  /\ additional_artists = <<>>
  /\ misidentified = <<>>
  /\ song_matches = <<>>
  /\ additional_artists_from_swapped_songs = <<>>
  /\ songs_misidentified_as_artists = <<>>
  /\ album_matches = <<>>
  /\ additional_artists_from_swapped_albums = <<>>
  /\ albums_misidentified_as_artists = <<>>
  /\ artists_to_search = {}
  /\ pending = {}
  /\ artist_matches = <<>>
  /\ looked_up = {}
  /\ swap_additional = {}
  /\ swap_misidentified = {}
  /\ lookup_log = <<>>
  /\ n_queries = 0
  /\ swap_queries = 0
  /\ last_queries = <<>>

CallResetNext ==
  /\ i' = 1
  /\ song_passes' = 0
  /\ matches' = <<>>
  /\ additional_artists' = <<>>
  /\ misidentified' = <<>>
  /\ song_matches' = <<>>
  /\ additional_artists_from_swapped_songs' = <<>>
  /\ songs_misidentified_as_artists' = <<>>
  /\ album_matches' = <<>>
  /\ additional_artists_from_swapped_albums' = <<>>
  /\ albums_misidentified_as_artists' = <<>>
  /\ artists_to_search' = {}
  /\ pending' = {}
  /\ artist_matches' = <<>>
  /\ looked_up' = {}
  /\ swap_additional' = {}
  /\ swap_misidentified' = {}
  /\ lookup_log' = <<>>
  /\ n_queries' = 0
  /\ swap_queries' = 0
  /\ last_queries' = <<>>

TopIdle == top_input = <<>> /\ top_result = None

\* Specifications that start after the extraction have no pending replies.
RepliesIdle == replies = <<>>

LinkerIdle ==
  /\ impl = "none"
  /\ n_texts = 0
  /\ extraction_tasks = {}
  /\ batch_results = <<>>
  /\ results = <<>>
  /\ batch_size = 0
  /\ launched = 0

\* client.py:15-16.
min_request_interval == 1

\* The two module-level clients: search_tools.py:5-10 and
\* musicBrainz/search_tools.py:4-9.
Clients == {"search_tools.mb_client", "musicBrainz.search_tools.mb_client"}
Callers == 1..MaxCallers

RateIdle ==
  /\ now = 0
  /\ last_request_time = [c \in Clients |-> 0]
  /\ client_of = <<>>
  /\ tpc = <<>>
  /\ wake_at = <<>>
  /\ sent = <<>>

DirectIdle ==
  /\ link_texts = <<>>
  /\ spotify_tracks = <<>>
  /\ e = 1

ExistingIdle ==
  /\ tracks = <<>>
  /\ pos = 0
  /\ seen = <<>>
  /\ duplicates = <<>>

SampleIdle ==
  /\ album_tracks = <<>>
  /\ album_page = <<>>
  /\ album_limit = 0
  /\ popular_tracks = <<>>
  /\ entry_matches = <<>>
  /\ sample_top_tracks = TRUE
  /\ artist_limit = 0
  /\ contributed = <<>>

DedupIdle ==
  /\ ExistingIdle
  /\ SampleIdle
  /\ remove_duplicates = TRUE
  /\ sp_track = <<>>
  /\ remaining = {}
  /\ visited = <<>>
  /\ unique_tracks = <<>>
  /\ track_list = <<>>
  /\ added = <<>>
  /\ batches = <<>>

AroundIdle ==
  LinkerIdle /\ RateIdle /\ DirectIdle /\ DedupIdle /\ track_ids = {}
AuxIdle == RepliesIdle /\ AroundIdle

Init ==
  /\ found \in BOOLEAN
  /\ replies \in ReplyBatches
  /\ units = <<>>
  /\ fresh = units
  /\ catalog = [q \in Queries |-> Unasked]
  /\ pc = "start"
  /\ u = 1
  /\ CallReset
  /\ result = NoResult
  /\ execution_results = <<>>
  /\ artifact_written = FALSE
  /\ call_no = 0
  /\ first_result = NoResult
  /\ first_swapped = FALSE
  /\ TopIdle
  /\ AroundIdle

\* ------------------------------------------------- execute_song_searches
\* Line 104: the tuple assignment exchanging the two fields in place.
SongSwap(search) ==
  [song_title |-> search.artist_name, artist_name |-> search.song_title]
\* Lines 105-106 read the fields after the exchange.
SongSwapAdditionalFromArtistField(swapped) == swapped.artist_name
SongSwapAdditional(swapped) == swapped.song_title
SongSwapMisidentified(swapped) == swapped.artist_name

\* The queries an iteration sent to the catalog, in order; the second one of
\* a song or album iteration is the swapped query.
Issue(asked) ==
  /\ last_queries' = asked
  /\ n_queries' = n_queries + Len(asked)
  /\ swap_queries' = swap_queries + (IF Len(asked) = 2 THEN 1 ELSE 0)

\* An exception leaving a lookup unwinds execute_searches and
\* process_comments_file up to the except clause of process_submission.
Raise(cat, asked) ==
  /\ catalog' = cat
  /\ pc' = "except"
  /\ Issue(asked)
  /\ UNCHANGED <<found, units, fresh, u, callLocals, result, execution_results,
                 artifact_written, rerunVars, topVars, auxVars>>

\* The end of one iteration of the for loop of execute_song_searches.
SongIterationEnd(cat, search, match, swapped, asked) ==
  /\ catalog' = cat
  /\ Issue(asked)
  /\ units' = [units EXCEPT ![u].song_searches[i] = search]
  /\ matches' = AppendIfMatch(matches, match)
  /\ additional_artists' =
       IF swapped THEN Append(additional_artists, SongSwapAdditional(search))
       ELSE additional_artists
  /\ misidentified' =
       IF swapped THEN Append(misidentified, SongSwapMisidentified(search))
       ELSE misidentified
  /\ swap_additional' =
       IF swapped THEN swap_additional \cup {SongSwapAdditional(search)}
       ELSE swap_additional
  /\ swap_misidentified' =
       IF swapped THEN swap_misidentified \cup {SongSwapMisidentified(search)}
       ELSE swap_misidentified
  /\ i' = i + 1
  /\ UNCHANGED <<found, fresh, pc, u, song_passes, song_matches,
                 additional_artists_from_swapped_songs,
                 songs_misidentified_as_artists, album_matches,
                 additional_artists_from_swapped_albums,
                 albums_misidentified_as_artists, artists_to_search, pending,
                 artist_matches, looked_up, lookup_log, result,
                 execution_results, artifact_written, rerunVars, topVars,
                 auxVars>>

\* One iteration of the for loop (lines 90-109): the direct lookup, the
\* swapped lookup when it found nothing and the request has an artist, the
\* in-place exchange and its bookkeeping, the append of the match.
ResolveSong ==
  /\ pc = "song_pass"
  /\ i <= Len(units[u].song_searches)
  /\ LET search == units[u].song_searches[i]
         q1 == SongQuery(search.song_title, search.artist_name)
         q2 == SongQuery(search.artist_name, search.song_title)
     IN \E r1 \in Answers(catalog, q1) :
          LET cat1 == [catalog EXCEPT ![q1] = r1]
              match == search_song(q1, r1)
          IN IF r1.kind = "error" THEN Raise(cat1, <<q1>>)
             ELSE IF ShouldSwap(match, search.artist_name)
             THEN \E r2 \in Answers(cat1, q2) :
                    LET cat2 == [cat1 EXCEPT ![q2] = r2]
                        swap_match == search_song(q2, r2)
                    IN IF r2.kind = "error" THEN Raise(cat2, <<q1, q2>>)
                       ELSE IF SwapAccepted(swap_match)
                       THEN SongIterationEnd(cat2, SongSwap(search), swap_match,
                                             TRUE, <<q1, q2>>)
                       ELSE SongIterationEnd(cat2, search, match, FALSE,
                                             <<q1, q2>>)
             ELSE SongIterationEnd(cat1, search, match, FALSE, <<q1>>)

\* The assignment of lines 11 and 13 binds song_matches to the list the
\* callee returned, dropping what the name was bound to; and a binding that
\* extends the earlier list instead.
RebindExtending(bound, returned) == bound \o returned
Rebind(bound, returned) == returned

\* The return of execute_song_searches (line 111) into the assignment of
\* execute_searches: line 11 for the first call, line 13 for the second,
\* which overwrites what line 11 bound.
ReturnSongSearches ==
  /\ pc = "song_pass"
  /\ i > Len(units[u].song_searches)
  /\ song_matches' = Rebind(song_matches, matches)
  /\ additional_artists_from_swapped_songs' = additional_artists
  /\ songs_misidentified_as_artists' = misidentified
  /\ song_passes' = song_passes + 1
  /\ pc' = IF song_passes = 0 THEN "song_pass" ELSE "album_pass"
  /\ i' = 1
  /\ matches' = <<>>
  /\ additional_artists' = <<>>
  /\ misidentified' = <<>>
  /\ UNCHANGED <<found, units, fresh, catalog, u, album_matches,
                 additional_artists_from_swapped_albums,
                 albums_misidentified_as_artists, artists_to_search, pending,
                 artist_matches, looked_up, swap_additional, swap_misidentified,
                 lookup_log, queryVars, result, execution_results,
                 artifact_written, rerunVars, topVars, auxVars>>

\* ------------------------------------------------ execute_album_searches
\* Line 66, and a sequential (non-tuple) assignment in its place.
AlbumSwapSequential(search) ==
  [album_title |-> search.artist_name, artist_name |-> search.artist_name]
AlbumSwap(search) ==
  [album_title |-> search.artist_name, artist_name |-> search.album_title]
\* Lines 68-69 read the fields after the exchange.
AlbumSwapAdditional(swapped) == swapped.album_title
AlbumSwapMisidentified(swapped) == swapped.artist_name

AlbumIterationEnd(cat, search, match, swapped, asked) ==
  /\ catalog' = cat
  /\ Issue(asked)
  /\ units' = [units EXCEPT ![u].album_searches[i] = search]
  /\ matches' = AppendIfMatch(matches, match)
  /\ additional_artists' =
       IF swapped THEN Append(additional_artists, AlbumSwapAdditional(search))
       ELSE additional_artists
  /\ misidentified' =
       IF swapped THEN Append(misidentified, AlbumSwapMisidentified(search))
       ELSE misidentified
  /\ swap_additional' =
       IF swapped THEN swap_additional \cup {AlbumSwapAdditional(search)}
       ELSE swap_additional
  /\ swap_misidentified' =
       IF swapped THEN swap_misidentified \cup {AlbumSwapMisidentified(search)}
       ELSE swap_misidentified
  /\ i' = i + 1
  /\ UNCHANGED <<found, fresh, pc, u, song_passes, song_matches,
                 additional_artists_from_swapped_songs,
                 songs_misidentified_as_artists, album_matches,
                 additional_artists_from_swapped_albums,
                 albums_misidentified_as_artists, artists_to_search, pending,
                 artist_matches, looked_up, lookup_log, result,
                 execution_results, artifact_written, rerunVars, topVars,
                 auxVars>>

\* One iteration of the for loop of execute_album_searches (lines 52-72).
ResolveAlbum ==
  /\ pc = "album_pass"
  /\ i <= Len(units[u].album_searches)
  /\ LET search == units[u].album_searches[i]
         q1 == AlbumQuery(search.album_title, search.artist_name)
         q2 == AlbumQuery(search.artist_name, search.album_title)
     IN \E r1 \in Answers(catalog, q1) :
          LET cat1 == [catalog EXCEPT ![q1] = r1]
              match == search_album(q1, r1)
          IN IF r1.kind = "error" THEN Raise(cat1, <<q1>>)
             ELSE IF ShouldSwap(match, search.artist_name)
             THEN \E r2 \in Answers(cat1, q2) :
                    LET cat2 == [cat1 EXCEPT ![q2] = r2]
                        swap_match == search_album(q2, r2)
                    IN IF r2.kind = "error" THEN Raise(cat2, <<q1, q2>>)
                       ELSE IF SwapAccepted(swap_match)
                       THEN AlbumIterationEnd(cat2, AlbumSwap(search), swap_match,
                                             TRUE, <<q1, q2>>)
                       ELSE AlbumIterationEnd(cat2, search, match, FALSE,
                                             <<q1, q2>>)
             ELSE AlbumIterationEnd(cat1, search, match, FALSE, <<q1>>)

\* The set expression of line 18, a Python set of str: two names are the
\* same element only if they are the same string.  Before it, a set that
\* keeps one name of those equal up to letter case.
ArtistsToSearchCaseFolded(add_songs, add_albums, explicit, mis_songs, mis_albums) ==
  LET all == (Range(add_songs) \cup Range(add_albums) \cup Range(explicit))
               \ (Range(mis_songs) \cup Range(mis_albums))
  IN {n \in all : n = CHOOSE m \in all : Lower(m) = Lower(n)}
ArtistsToSearch(add_songs, add_albums, explicit, mis_songs, mis_albums) ==
  (Range(add_songs) \cup Range(add_albums) \cup Range(explicit))
    \ (Range(mis_songs) \cup Range(mis_albums))

\* The return of execute_album_searches into line 15, then line 18.
ReturnAlbumSearches ==
  /\ pc = "album_pass"
  /\ i > Len(units[u].album_searches)
  /\ album_matches' = matches
  /\ additional_artists_from_swapped_albums' = additional_artists
  /\ albums_misidentified_as_artists' = misidentified
  /\ artists_to_search' =
       ArtistsToSearch(additional_artists_from_swapped_songs, additional_artists,
                       units[u].artist_searches,
                       songs_misidentified_as_artists, misidentified)
  /\ pending' = artists_to_search'
  /\ pc' = "artist_pass"
  /\ i' = 1
  /\ matches' = <<>>
  /\ additional_artists' = <<>>
  /\ misidentified' = <<>>
  /\ UNCHANGED <<found, units, fresh, catalog, u, song_passes, song_matches,
                 additional_artists_from_swapped_songs,
                 songs_misidentified_as_artists, artist_matches, looked_up,
                 swap_additional, swap_misidentified, lookup_log, queryVars,
                 result, execution_results, artifact_written, rerunVars,
                 topVars, auxVars>>

\* ----------------------------------------------- execute_artist_searches
\* One iteration of the for loop over the set artists_to_search (lines
\* 33-36); a Python set is iterated in an order the program does not fix.
LookupArtist ==
  /\ pc = "artist_pass"
  /\ \E artist_name \in pending :
       LET q == ArtistQuery(artist_name) IN
       \E r \in Answers(catalog, q) :
         LET cat == [catalog EXCEPT ![q] = r]
             match == search_artist(q, r)
         IN /\ looked_up' = looked_up \cup {artist_name}
            /\ lookup_log' = Append(lookup_log, artist_name)
            /\ Issue(<<q>>)
            /\ IF r.kind = "error"
               THEN /\ catalog' = cat
                    /\ pc' = "except"
                    /\ UNCHANGED <<pending, artist_matches>>
               ELSE /\ catalog' = cat
                    /\ pending' = pending \ {artist_name}
                    /\ artist_matches' = AppendIfMatch(artist_matches, match)
                    /\ UNCHANGED pc
  /\ UNCHANGED <<found, units, fresh, u, i, song_passes, matches,
                 additional_artists, misidentified, song_matches,
                 additional_artists_from_swapped_songs,
                 songs_misidentified_as_artists, album_matches,
                 additional_artists_from_swapped_albums,
                 albums_misidentified_as_artists, artists_to_search,
                 swap_additional, swap_misidentified, result,
                 execution_results, artifact_written, rerunVars, topVars, auxVars>>

\* --------------------------------------------------------- execute_searches
\* Entry of execute_searches(searches) on units[u].
ExecuteSearchesEntry ==
  /\ pc = "call"
  /\ pc' = "song_pass"
  /\ call_no' = call_no + 1
  /\ CallResetNext
  /\ UNCHANGED <<found, units, fresh, catalog, u, result, execution_results,
                 artifact_written, first_result, first_swapped, topVars, auxVars>>

\* Lines 20-29: execute_artist_searches has returned, the dict is returned.
ReturnExecuteSearches ==
  /\ pc = "artist_pass"
  /\ pending = {}
  /\ result' = [artists |-> artist_matches, songs |-> song_matches,
                albums |-> album_matches]
  /\ pc' = "call_return"
  /\ UNCHANGED <<found, units, fresh, catalog, u, callVars, execution_results,
                 artifact_written, rerunVars, topVars, auxVars>>

\* ------------------------------------------------------------------ main.py
\* process_submission up to the extraction of process_comments_file
\* (main.py:58-79, 118-152): no data found returns None at once; no text
\* leaves results empty.
ProcessSubmission ==
  /\ pc = "start"
  /\ pc' = IF ~found THEN "returned"
           ELSE IF replies = <<>> THEN "write" ELSE "extract"
  /\ UNCHANGED <<found, units, fresh, catalog, u, callVars, result,
                 execution_results, artifact_written, rerunVars, topVars, auxVars>>

\* main.py:154: the batch extraction of all texts.
ExtractSearchesBatch ==
  /\ pc = "extract"
  /\ units' = extract_searches_batch(replies)
  /\ fresh' = units'
  /\ pc' = "call"
  /\ UNCHANGED <<found, catalog, u, callVars, result, execution_results,
                 artifact_written, rerunVars, topVars, auxVars>>

\* One element of the list comprehension of main.py:159, and after the last
\* one the zip of lines 162-164 and the return to process_submission.
CollectResult ==
  /\ pc = "call_return"
  /\ execution_results' = Append(execution_results, result)
  /\ IF u < Len(units)
     THEN u' = u + 1 /\ pc' = "call"
     ELSE u' = u /\ pc' = "write"
  /\ call_no' = 0
  /\ UNCHANGED <<found, units, fresh, catalog, callVars, result,
                 artifact_written, first_result, first_swapped, topVars, auxVars>>

\* main.py:82-83 and the rest of the try block, which is not modelled.
WriteArtifact ==
  /\ pc = "write"
  /\ artifact_written' = TRUE
  /\ pc' = "returned"
  /\ UNCHANGED <<found, units, fresh, catalog, u, callVars, result,
                 execution_results, rerunVars, topVars, auxVars>>

\* main.py:114-116: except Exception logs and returns None.
HandleException ==
  /\ pc = "except"
  /\ pc' = "returned"
  /\ UNCHANGED <<found, units, fresh, catalog, u, callVars, result,
                 execution_results, artifact_written, rerunVars, topVars, auxVars>>

Next ==
  \/ ProcessSubmission
  \/ ExtractSearchesBatch
  \/ ExecuteSearchesEntry
  \/ ResolveSong
  \/ ReturnSongSearches
  \/ ResolveAlbum
  \/ ReturnAlbumSearches
  \/ LookupArtist
  \/ ReturnExecuteSearches
  \/ CollectResult
  \/ WriteArtifact
  \/ HandleException

Spec == Init /\ [][Next]_vars

\* ------------------------------------------------- one call, and a second
\* One call of execute_searches on a freshly extracted unit.
InitCall ==
  /\ found = TRUE
  /\ units \in UnitSeqs(1, MaxRequests)
  /\ fresh = units
  /\ catalog = [q \in Queries |-> Unasked]
  /\ pc = "call"
  /\ u = 1
  /\ CallReset
  /\ result = NoResult
  /\ execution_results = <<>>
  /\ artifact_written = FALSE
  /\ call_no = 0
  /\ first_result = NoResult
  /\ first_swapped = FALSE
  /\ TopIdle
  /\ AuxIdle

NextCall ==
  \/ ExecuteSearchesEntry
  \/ ResolveSong
  \/ ReturnSongSearches
  \/ ResolveAlbum
  \/ ReturnAlbumSearches
  \/ LookupArtist
  \/ ReturnExecuteSearches

SpecCall == InitCall /\ [][NextCall]_vars

\* A caller that calls execute_searches again on the object the first call
\* was given (and exchanged fields of), against the same frozen catalog.
CallAgain ==
  /\ pc = "call_return"
  /\ call_no = 1
  /\ first_result' = result
  /\ first_swapped' = (swap_additional # {})
  /\ pc' = "call"
  /\ UNCHANGED <<found, units, fresh, catalog, u, callVars, result,
                 execution_results, artifact_written, call_no, topVars, auxVars>>

NextRerun ==
  \/ ExecuteSearchesEntry
  \/ ResolveSong
  \/ ReturnSongSearches
  \/ ResolveAlbum
  \/ ReturnAlbumSearches
  \/ LookupArtist
  \/ ReturnExecuteSearches
  \/ CallAgain

SpecRerun == InitCall /\ [][NextRerun]_vars

\* A second run of execute_searches on the same input, that is on the
\* requests as they were extracted, against the same frozen catalog.
RunAgain ==
  /\ pc = "call_return"
  /\ call_no = 1
  /\ first_result' = result
  /\ first_swapped' = (swap_additional # {})
  /\ units' = fresh
  /\ pc' = "call"
  /\ UNCHANGED <<found, fresh, catalog, u, callVars, result,
                 execution_results, artifact_written, call_no, topVars, auxVars>>

NextStable ==
  \/ ExecuteSearchesEntry
  \/ ResolveSong
  \/ ReturnSongSearches
  \/ ResolveAlbum
  \/ ReturnAlbumSearches
  \/ LookupArtist
  \/ ReturnExecuteSearches
  \/ RunAgain

SpecStable == InitCall /\ [][NextStable]_vars

\* ------------------------------------------------------------ _get_top_match
\* Candidate lists of up to MaxCands items, in catalog order.
\* Everything of the resolution pipeline at rest.
PipelineIdleButTop ==
  /\ found = FALSE
  /\ units = <<>>
  /\ fresh = units
  /\ catalog = [q \in Queries |-> Unasked]
  /\ u = 1
  /\ CallReset
  /\ result = NoResult
  /\ execution_results = <<>>
  /\ artifact_written = FALSE
  /\ call_no = 0
  /\ first_result = NoResult
  /\ first_swapped = FALSE

CandidateLists ==
  UNION {{Matches(ArtistQuery("Money"), scores) : scores \in SeqsOfLen(Scores, n)}
         : n \in 0..MaxCands}

InitTop ==
  /\ found = FALSE
  /\ units = <<>>
  /\ fresh = units
  /\ catalog = [q \in Queries |-> Unasked]
  /\ pc = "top"
  /\ u = 1
  /\ CallReset
  /\ result = NoResult
  /\ execution_results = <<>>
  /\ artifact_written = FALSE
  /\ call_no = 0
  /\ first_result = NoResult
  /\ first_swapped = FALSE
  /\ top_input \in CandidateLists
  /\ top_result = None
  /\ AuxIdle

ApplyTopMatch ==
  /\ pc = "top"
  /\ top_result' = _get_top_match(top_input)
  /\ pc' = "top_done"
  /\ UNCHANGED <<found, units, fresh, catalog, u, callVars, result,
                 execution_results, artifact_written, rerunVars, top_input, auxVars>>

NextTop == ApplyTopMatch

SpecTop == InitTop /\ [][NextTop]_vars

\* ------------------------------------------------------ the Spotify backend
\* search_tools_spotify.py: the items Spotify returns, in Spotify's order,
\* each with the popularity Spotify reports; the score is made up from the
\* position alone.
SpotifyScoreByTens(rank) == 100 - (rank * 10)
SpotifyScore(rank) == IF rank = 0 THEN 100 ELSE 90 - (rank * 10)

SpotifyItems ==
  UNION {{[k \in 1..n |-> [type |-> ty, popularity |-> ps[k]]]
          : ps \in SeqsOfLen(Scores, n), ty \in {"artist", "track", "album"}}
         : n \in 0..MaxItems}

SpotifyMatches(items) ==
  [k \in 1..Len(items) |->
     [kind |-> "dict", type |-> items[k].type, index |-> k - 1,
      score |-> SpotifyScore(k - 1), popularity |-> items[k].popularity]]

SpotifySearch(items) ==
  IF items = <<>> THEN None ELSE _get_top_match(SpotifyMatches(items))

InitSpotify ==
  /\ PipelineIdleButTop
  /\ AuxIdle
  /\ pc = "spotify"
  /\ top_input \in SpotifyItems
  /\ top_result = None

ApplySpotifySearch ==
  /\ pc = "spotify"
  /\ top_result' = SpotifySearch(top_input)
  /\ pc' = "spotify_done"
  /\ UNCHANGED <<found, units, fresh, catalog, u, callVars, result,
                 execution_results, artifact_written, rerunVars, top_input, auxVars>>

NextSpotify == ApplySpotifySearch

SpecSpotify == InitSpotify /\ [][NextSpotify]_vars

\* Everything of the pipeline at rest, for the specifications of the code
\* around it.
PipelineIdle == PipelineIdleButTop /\ TopIdle

pipelineVars == <<found, units, fresh, catalog, u, callVars, result,
                  execution_results, artifact_written, rerunVars, topVars>>

\* ------------------------------------------- pairing results with metadata
\* One batch of process_comments_file: texts 1..n_texts with their metadata,
\* the extractions started together and completing in any order.  A result
\* is identified by the text its searches were extracted from.  The
\* resolution calls of llm_linker.py:276-286 are taken to return the
\* matches of the searches they are given.
InitLinker ==
  /\ PipelineIdle
  /\ RepliesIdle
  /\ RateIdle
  /\ DirectIdle
  /\ DedupIdle
  /\ track_ids = {}
  /\ pc = "extracting"
  /\ impl \in {"llm_linker", "main"}
  /\ n_texts \in 1..MaxTexts
  /\ extraction_tasks = 1..n_texts
  /\ batch_results = <<>>
  /\ results = <<>>
  /\ batch_size = n_texts
  /\ launched = n_texts

\* llm_linker.py:272-295: one round of the for loop over
\* asyncio.as_completed, which yields the extractions in the order they
\* finish; the result of the one that finished is appended.
AsCompletedNext ==
  /\ pc = "extracting"
  /\ impl = "llm_linker"
  /\ \E k \in extraction_tasks :
       /\ extraction_tasks' = extraction_tasks \ {k}
       /\ batch_results' = Append(batch_results, k)
  /\ pc' = IF extraction_tasks' = {} THEN "zip" ELSE pc
  /\ UNCHANGED <<pipelineVars, replies, rateVars, playlistVars, batch_size, launched, impl, n_texts, results>>

\* llm_linker.py:108-110 under main.py:154: one extraction task run by
\* asyncio.gather finishes.
GatherTaskDone ==
  /\ pc = "extracting"
  /\ impl = "main"
  /\ \E k \in extraction_tasks : extraction_tasks' = extraction_tasks \ {k}
  /\ UNCHANGED <<pipelineVars, replies, rateVars, playlistVars, batch_size, launched, pc, impl, n_texts, batch_results,
                 results>>

\* llm_linker.py:110-111 and main.py:154-159: gather returns the results in
\* the order of the texts, and each is resolved in that order.
GatherReturn ==
  /\ pc = "extracting"
  /\ impl = "main"
  /\ extraction_tasks = {}
  /\ batch_results' = [k \in 1..n_texts |-> k]
  /\ pc' = "zip"
  /\ UNCHANGED <<pipelineVars, replies, rateVars, playlistVars, batch_size, launched, impl, n_texts, extraction_tasks,
                 results>>

\* llm_linker.py:298-299 and main.py:162-164: zip pairs the j-th metadata
\* with the j-th result.
ZipMetadata ==
  /\ pc = "zip"
  /\ results' = [j \in 1..n_texts |->
                   [metadata |-> j, results |-> batch_results[j]]]
  /\ pc' = "zipped"
  /\ UNCHANGED <<pipelineVars, replies, rateVars, playlistVars, batch_size, launched, impl, n_texts, extraction_tasks,
                 batch_results>>

NextLinker ==
  \/ AsCompletedNext
  \/ GatherTaskDone
  \/ GatherReturn
  \/ ZipMetadata

SpecLinker == InitLinker /\ [][NextLinker]_vars

\* ------------------------------------------------ batches of extractions
\* The texts 1..n_texts of one file and the configured batch size;
\* extraction_tasks are the extraction calls outstanding, launched counts
\* the texts whose extraction has been started.
InitBatches ==
  /\ PipelineIdle
  /\ RepliesIdle
  /\ RateIdle
  /\ DirectIdle
  /\ DedupIdle
  /\ track_ids = {}
  /\ pc = "batches"
  /\ impl \in {"llm_linker", "main"}
  /\ n_texts \in 1..MaxTexts
  /\ batch_size \in 1..MaxBatchSize
  /\ launched = 0
  /\ extraction_tasks = {}
  /\ batch_results = <<>>
  /\ results = <<>>

\* llm_linker.py:239-268: the next batch_size rows make one batch, whose
\* extractions are all started together; the for loop comes here only after
\* the as_completed loop of the batch before has awaited every task.
LaunchBatch ==
  /\ pc = "batches"
  /\ impl = "llm_linker"
  /\ extraction_tasks = {}
  /\ launched < n_texts
  /\ launched' = IF launched + batch_size < n_texts
                 THEN launched + batch_size ELSE n_texts
  /\ extraction_tasks' = (launched + 1)..launched'
  /\ batch_results' = <<>>
  /\ UNCHANGED <<pipelineVars, pc, replies, rateVars, playlistVars, impl, n_texts,
                 batch_size, results>>

\* main.py:154 on llm_linker.py:108-110: every text is handed to
\* extract_searches_batch in one call, which gathers a task per text; the
\* batch size plays no part.
GatherAllTexts ==
  /\ pc = "batches"
  /\ impl = "main"
  /\ launched = 0
  /\ launched' = n_texts
  /\ extraction_tasks' = 1..n_texts
  /\ UNCHANGED <<pipelineVars, pc, replies, rateVars, playlistVars, impl, n_texts,
                 batch_size, batch_results, results>>

\* llm_linker.py:272-273, 110: one outstanding extraction call completes.
ExtractionCompletes ==
  /\ pc = "batches"
  /\ \E k \in extraction_tasks :
       /\ extraction_tasks' = extraction_tasks \ {k}
       /\ batch_results' = Append(batch_results, k)
  /\ UNCHANGED <<pipelineVars, pc, replies, rateVars, playlistVars, impl, n_texts,
                 batch_size, launched, results>>

\* llm_linker.py:301, main.py:166: every text has been extracted.
ReturnFromBatches ==
  /\ pc = "batches"
  /\ launched = n_texts
  /\ extraction_tasks = {}
  /\ pc' = "batched"
  /\ UNCHANGED <<pipelineVars, replies, auxVars>>

NextBatches ==
  \/ LaunchBatch
  \/ GatherAllTexts
  \/ ExtractionCompletes
  \/ ReturnFromBatches

SpecBatches == InitBatches /\ [][NextBatches]_vars

\* ------------------------------------------------------------ _rate_limit
\* Threads of the default executor (search_tools.py:159-190) inside
\* _make_request, each on the module-level client of the module it was
\* imported from.  The clock starts one interval after the epoch value 0 the
\* attribute is constructed with.
InitRate ==
  /\ PipelineIdle
  /\ RepliesIdle
  /\ LinkerIdle
  /\ DirectIdle
  /\ DedupIdle
  /\ track_ids = {}
  /\ pc = "rate"
  /\ now = min_request_interval
  /\ last_request_time = [c \in Clients |-> 0]
  /\ client_of \in [Callers -> Clients]
  /\ tpc = [t \in Callers |-> "idle"]
  /\ wake_at = [t \in Callers |-> 0]
  /\ sent = <<>>

\* client.py:22, the test that sends the caller to sleep; and a gate that
\* never does.
MustSleepNever(time_since_last_request) == FALSE
MustSleep(time_since_last_request) ==
  time_since_last_request < min_request_interval

\* client.py:20-23: read the clock and the attribute; sleep for the rest of
\* the interval if it has not passed.  No lock is held.
RateLimitEnter ==
  \E t \in Callers :
    /\ pc = "rate"
    /\ tpc[t] = "idle"
    /\ Len(sent) < MaxSent
    /\ LET current_time == now
           time_since_last_request ==
             current_time - last_request_time[client_of[t]]
       IN IF MustSleep(time_since_last_request)
          THEN /\ tpc' = [tpc EXCEPT ![t] = "sleeping"]
               /\ wake_at' = [wake_at EXCEPT ![t] =
                      now + (min_request_interval - time_since_last_request)]
          ELSE /\ tpc' = [tpc EXCEPT ![t] = "ready"]
               /\ UNCHANGED wake_at
    /\ UNCHANGED <<pipelineVars, pc, replies, linkerVars, playlistVars, now,
                   last_request_time, client_of, sent>>

\* client.py:23: time.sleep returns once the duration has passed.
SleepReturns ==
  \E t \in Callers :
    /\ pc = "rate"
    /\ tpc[t] = "sleeping"
    /\ now >= wake_at[t]
    /\ tpc' = [tpc EXCEPT ![t] = "ready"]
    /\ UNCHANGED <<pipelineVars, pc, replies, linkerVars, playlistVars, now,
                   last_request_time, client_of, wake_at, sent>>

\* client.py:24 and 30-31: the attribute is set to the clock and the
\* request is sent.
PassGate ==
  \E t \in Callers :
    /\ pc = "rate"
    /\ tpc[t] = "ready"
    /\ last_request_time' =
         [last_request_time EXCEPT ![client_of[t]] = now]
    /\ sent' = Append(sent, now)
    /\ tpc' = [tpc EXCEPT ![t] = "idle"]
    /\ UNCHANGED <<pipelineVars, pc, replies, linkerVars, playlistVars, now, client_of,
                   wake_at>>

\* A second passes.
Tick ==
  /\ pc = "rate"
  /\ now < MaxTime
  /\ now' = now + 1
  /\ UNCHANGED <<pipelineVars, pc, replies, linkerVars, playlistVars, last_request_time,
                 client_of, tpc, wake_at, sent>>

NextRate ==
  \/ RateLimitEnter
  \/ SleepReturns
  \/ PassGate
  \/ Tick

SpecRate == InitRate /\ [][NextRate]_vars

\* A single sequential caller of one client: the other threads never call.
InitRateSequential ==
  /\ PipelineIdle
  /\ RepliesIdle
  /\ LinkerIdle
  /\ DirectIdle
  /\ DedupIdle
  /\ track_ids = {}
  /\ pc = "rate"
  /\ now \in min_request_interval..MaxTime
  /\ last_request_time = [c \in Clients |-> 0]
  /\ client_of \in [Callers -> Clients]
  /\ tpc = [t \in Callers |-> IF t = 1 THEN "idle" ELSE "absent"]
  /\ wake_at = [t \in Callers |-> 0]
  /\ sent = <<>>

SpecRateSequential == InitRateSequential /\ [][NextRate]_vars

\* ------------------------------------------------- direct Spotify tracks
TrackIds == 1..MaxTracks

\* The texts of up to n entries holding at most b markdown links to
\* Spotify tracks in all; a text is given by the tracks its links name, in
\* the order they occur.
RECURSIVE LinkTexts(_, _)
LinkTexts(n, b) ==
  IF n = 0 THEN {<<>>}
  ELSE UNION {UNION {{<<links>> \o rest : rest \in LinkTexts(n - 1, b - k)}
                     : links \in SeqsOfLen(TrackIds, k)} : k \in 0..b}

\* spotify_resolver.py:51-55: the dict appended for one link.  The URL is
\* given by the track it ends in; the titles are text.
TrackInfoOfLink(track_id) ==
  [markdown_text |-> "text", spotify_url |-> track_id, raw_title |-> "title"]

\* spotify_resolver.py:42-62: the links are gone over in reverse.
RECURSIVE Reversed(_)
Reversed(s) ==
  IF s = <<>> THEN <<>> ELSE Append(Reversed(Tail(s)), Head(s))

extract_and_replace_spotify_links(links) ==
  LET reversed == Reversed(links)
  IN [k \in 1..Len(reversed) |-> TrackInfoOfLink(reversed[k])]

\* playlist_generator.py:79-82: the ids of the dicts that have an 'id' key.
DirectTrackIds(direct) ==
  {direct[k].id : k \in {j \in 1..Len(direct) : "id" \in DOMAIN direct[j]}}

InitDirect ==
  /\ PipelineIdle
  /\ RepliesIdle
  /\ LinkerIdle
  /\ RateIdle
  /\ DedupIdle
  /\ pc = "links"
  /\ link_texts \in UNION {LinkTexts(n, MaxLinks) : n \in 0..MaxEntries}
  /\ spotify_tracks = <<>>
  /\ e = 1
  /\ track_ids = {}

\* main.py:135-149: one text goes through extract_and_replace_spotify_links
\* and the list is stored in the unit's metadata under spotify_tracks.
StoreSpotifyTracks ==
  /\ pc = "links"
  /\ e <= Len(link_texts)
  /\ spotify_tracks' =
       Append(spotify_tracks, extract_and_replace_spotify_links(link_texts[e]))
  /\ e' = e + 1
  /\ UNCHANGED <<pipelineVars, pc, replies, linkerVars, rateVars,
                 link_texts, track_ids, dedupVars>>

\* The results are written and read back (main.py:82-83,
\* playlist_generator.py:162-171) and _extract_track_ids starts.
StartExtractTrackIds ==
  /\ pc = "links"
  /\ e > Len(link_texts)
  /\ pc' = "entries"
  /\ e' = 1
  /\ track_ids' = {}
  /\ UNCHANGED <<pipelineVars, replies, linkerVars, rateVars, link_texts,
                 spotify_tracks, dedupVars>>

\* playlist_generator.py:77-82: the direct tracks of one entry.
ExtractEntryTracks ==
  /\ pc = "entries"
  /\ e <= Len(spotify_tracks)
  /\ track_ids' = track_ids \cup DirectTrackIds(spotify_tracks[e])
  /\ e' = e + 1
  /\ UNCHANGED <<pipelineVars, pc, replies, linkerVars, rateVars,
                 link_texts, spotify_tracks, dedupVars>>

\* playlist_generator.py:136: return track_ids.
ReturnTrackIds ==
  /\ pc = "entries"
  /\ e > Len(spotify_tracks)
  /\ pc' = "track_ids"
  /\ UNCHANGED <<pipelineVars, replies, linkerVars, rateVars, directVars,
                 track_ids, dedupVars>>

NextDirect ==
  \/ StoreSpotifyTracks
  \/ StartExtractTrackIds
  \/ ExtractEntryTracks
  \/ ReturnTrackIds

SpecDirect == InitDirect /\ [][NextDirect]_vars

\* ------------------------------------------- create_playlist_from_results
\* What sp.track gives for a track id: an exception, or the track's name,
\* primary artist and popularity.
TrackNames == {"Money", " MONEY ", "Time"}
TrackArtists == {"Pink Floyd", "PINK FLOYD "}
Popularities == {50, 80}
TrackError == [error |-> TRUE, name |-> "", artist |-> "", popularity |-> 0]
TrackInfo(name, artist, popularity) ==
  [error |-> FALSE, name |-> name, artist |-> artist, popularity |-> popularity]
TrackInfos ==
  {TrackError}
    \cup {TrackInfo("Money", "Pink Floyd", p) : p \in Popularities}
    \cup {TrackInfo(" MONEY ", "PINK FLOYD ", p) : p \in Popularities}
    \cup {TrackInfo("Time", "Pink Floyd", p) : p \in Popularities}

\* playlist_generator.py:184-187: the normalized key.
TrackKey(track_info) ==
  <<Strip(Lower(track_info.name)), Strip(Lower(track_info.artist))>>

\* playlist_generator.py:189, the comparison that lets a track take the
\* place of the one kept for its key; and one that also replaces on a tie.
ReplacesOnTie(popularity, kept_popularity) == popularity >= kept_popularity
Replaces(popularity, kept_popularity) == popularity > kept_popularity

\* The position of key in the dict, 0 if it is not in it.
KeyIndex(items, key) ==
  IF \E k \in 1..Len(items) : items[k].key = key
  THEN CHOOSE k \in 1..Len(items) : items[k].key = key
  ELSE 0

\* playlist_generator.py:189-193: unique_tracks[key] = {...} when the key is
\* new or the track is more popular than the one kept.
PutIfMorePopular(items, key, track_id, popularity) ==
  LET k == KeyIndex(items, key)
      item == [key |-> key, id |-> track_id, popularity |-> popularity]
  IN IF k = 0 THEN Append(items, item)
     ELSE IF Replaces(popularity, items[k].popularity)
     THEN [items EXCEPT ![k] = item]
     ELSE items

\* The orders random.shuffle can leave a list in.
Shuffles(s) ==
  {[k \in 1..Len(s) |-> s[f[k]]] :
     f \in {g \in [1..Len(s) -> 1..Len(s)] :
              \A a, b \in 1..Len(s) : g[a] = g[b] => a = b}}

\* playlist_generator.py:213-214: range(0, len(track_ids), 100) and the
\* slice track_ids[i:i + 100], which stops at the end of the list.
BatchSize == 100
Batch(list, offset) ==
  SubSeq(list, offset + 1,
         IF offset + BatchSize < Len(list) THEN offset + BatchSize ELSE Len(list))

\* create_playlist_from_results after _extract_track_ids returned its set
\* (lines 166-171), with remove_duplicates as main.py:96 passes it.
InitDedup ==
  /\ PipelineIdle
  /\ RepliesIdle
  /\ LinkerIdle
  /\ RateIdle
  /\ DirectIdle
  /\ ExistingIdle
  /\ SampleIdle
  /\ pc = "dedup"
  /\ remove_duplicates \in BOOLEAN
  /\ track_ids \in {1..n : n \in 0..MaxTracks}
  /\ sp_track \in [track_ids -> TrackInfos]
  /\ remaining = track_ids
  /\ visited = <<>>
  /\ unique_tracks = <<>>
  /\ track_list = <<>>
  /\ added = <<>>
  /\ batches = <<>>

\* Lines 173-175: nothing was extracted.
ReturnNone ==
  /\ pc = "dedup"
  /\ track_ids = {}
  /\ pc' = "none"
  /\ UNCHANGED <<pipelineVars, replies, auxVars>>

\* One iteration of the for loop over the set track_ids (lines 180-196); a
\* set is iterated in an order the program does not fix.
DedupTrack ==
  /\ pc = "dedup"
  /\ remove_duplicates
  /\ \E track_id \in remaining :
       LET track_info == sp_track[track_id] IN
       /\ remaining' = remaining \ {track_id}
       /\ visited' = Append(visited, track_id)
       /\ unique_tracks' =
            IF track_info.error THEN unique_tracks
            ELSE PutIfMorePopular(unique_tracks, TrackKey(track_info),
                                  track_id, track_info.popularity)
  /\ UNCHANGED <<pipelineVars, pc, replies, linkerVars, rateVars,
                 directVars, track_ids, sp_track, track_list, added, batches, remove_duplicates, existingVars, sampleVars>>

\* Lines 199-202: the list of the kept ids, shuffled.
ShuffleTracks ==
  /\ pc = "dedup"
  /\ remove_duplicates
  /\ track_ids # {}
  /\ remaining = {}
  /\ track_list' \in
       Shuffles([k \in 1..Len(unique_tracks) |-> unique_tracks[k].id])
  /\ pc' = "add"
  /\ UNCHANGED <<pipelineVars, replies, linkerVars, rateVars, directVars,
                 track_ids, sp_track, remaining, visited, unique_tracks,
                 added, batches, remove_duplicates, existingVars, sampleVars>>

\* Line 202 without remove_duplicates: track_ids is still the set, and
\* random.shuffle swaps x[i], x[j] for i from len(x) - 1 down to 1, which a
\* set does not support (TypeError); a set of one is left alone.
ShuffleSet ==
  /\ pc = "dedup"
  /\ ~remove_duplicates
  /\ track_ids # {}
  /\ pc' = IF Cardinality(track_ids) > 1 THEN "raised" ELSE "add"
  /\ UNCHANGED <<pipelineVars, replies, auxVars>>

\* len(track_ids) at line 213.
FinalLen ==
  IF remove_duplicates THEN Len(track_list) ELSE Cardinality(track_ids)

\* Lines 205-210: the playlist is created.
CreatePlaylist ==
  /\ pc = "add"
  /\ pc' = "adding"
  /\ UNCHANGED <<pipelineVars, replies, auxVars>>

\* Lines 213-215: one round of the loop over range(0, len(track_ids), 100),
\* which is at offset 100 * (rounds done).
AddBatch ==
  /\ pc = "adding"
  /\ remove_duplicates
  /\ BatchSize * Len(batches) < FinalLen
  /\ LET batch == Batch(track_list, BatchSize * Len(batches))
     IN /\ batches' = Append(batches, batch)
        /\ added' = added \o batch
  /\ UNCHANGED <<pipelineVars, pc, replies, linkerVars, rateVars, directVars,
                 track_ids, sp_track, remaining, visited, unique_tracks,
                 track_list, remove_duplicates, existingVars, sampleVars>>

\* Line 214 without remove_duplicates: the slice of a set raises TypeError.
SliceRaises ==
  /\ pc = "adding"
  /\ ~remove_duplicates
  /\ BatchSize * Len(batches) < FinalLen
  /\ pc' = "raised"
  /\ UNCHANGED <<pipelineVars, replies, auxVars>>

\* Lines 217-218: the range is exhausted and the URL is returned.
ReturnPlaylistUrl ==
  /\ pc = "adding"
  /\ BatchSize * Len(batches) >= FinalLen
  /\ pc' = "playlist"
  /\ UNCHANGED <<pipelineVars, replies, auxVars>>

NextDedup ==
  \/ ReturnNone
  \/ DedupTrack
  \/ ShuffleTracks
  \/ ShuffleSet
  \/ CreatePlaylist
  \/ AddBatch
  \/ SliceRaises
  \/ ReturnPlaylistUrl

SpecDedup == InitDedup /\ [][NextDedup]_vars

\* Lines 201-218 on up to MaxListLen tracks.  With remove_duplicates the
\* final list is the shuffled list of line 199, whose ids are distinct (the
\* values of a dict built from a set), taken as 1..n in its shuffled order;
\* without, it is the set _extract_track_ids returned.
InitAddItems ==
  /\ PipelineIdle
  /\ RepliesIdle
  /\ LinkerIdle
  /\ RateIdle
  /\ DirectIdle
  /\ ExistingIdle
  /\ SampleIdle
  /\ remove_duplicates \in BOOLEAN
  /\ track_ids \in {1..n : n \in 1..MaxListLen}
  /\ IF remove_duplicates
     THEN pc = "add" /\ track_list = [k \in 1..Cardinality(track_ids) |-> k]
     ELSE pc = "dedup" /\ track_list = <<>>
  /\ sp_track = <<>>
  /\ remaining = {}
  /\ visited = <<>>
  /\ unique_tracks = <<>>
  /\ added = <<>>
  /\ batches = <<>>

NextAddItems ==
  \/ ShuffleSet
  \/ CreatePlaylist
  \/ AddBatch
  \/ SliceRaises
  \/ ReturnPlaylistUrl

SpecAddItems == InitAddItems /\ [][NextAddItems]_vars

\* ------------------------------------------ _get_popular_tracks_from_album
\* playlist_generator.py:47-48, the size of a popularity batch.
PopularityBatch == 50

AlbumPopularities == {20, 50, 80}

\* An album is given by the popularities of its tracks in album order; the
\* id of a track is its place on the album.  Short albums, and albums of
\* one popularity batch of equal tracks followed by a few more.
AlbumTrack(k, popularity) == [id |-> k, popularity |-> popularity]
AlbumOf(popularities) ==
  [k \in 1..Len(popularities) |-> AlbumTrack(k, popularities[k])]
Albums ==
  {AlbumOf(ps) : ps \in UNION {SeqsOfLen(AlbumPopularities, n) : n \in 0..MaxAlbumTracks}}
    \cup {AlbumOf([k \in 1..PopularityBatch |-> p] \o ps)
           : p \in AlbumPopularities,
             ps \in UNION {SeqsOfLen(AlbumPopularities, n) : n \in 1..MaxOverflow}}

\* s[:n] for n >= 0.
Take(s, n) == SubSeq(s, 1, IF n < Len(s) THEN n ELSE Len(s))

\* sorted(track_info, key=popularity, reverse=True): stable, so tracks of
\* equal popularity keep their order.
RECURSIVE InsertByPopularity(_, _)
InsertByPopularity(sorted, track) ==
  IF sorted = <<>> THEN <<track>>
  ELSE IF Head(sorted).popularity >= track.popularity
  THEN <<Head(sorted)>> \o InsertByPopularity(Tail(sorted), track)
  ELSE <<track>> \o sorted
RECURSIVE SortedByPopularity(_, _)
SortedByPopularity(track_info, k) ==
  IF k = 0 THEN <<>>
  ELSE InsertByPopularity(SortedByPopularity(track_info, k - 1), track_info[k])

\* Lines 47-54: for each batch of 50 of the listed tracks, the limit most
\* popular of the batch are appended.
RECURSIVE PopularOfBatches(_, _, _)
PopularOfBatches(listed, offset, limit) ==
  IF offset >= Len(listed) THEN <<>>
  ELSE LET batch == SubSeq(listed, offset + 1,
                           IF offset + PopularityBatch < Len(listed)
                           THEN offset + PopularityBatch ELSE Len(listed))
       IN Take(SortedByPopularity(batch, Len(batch)), limit)
            \o PopularOfBatches(listed, offset + PopularityBatch, limit)

\* Lines 43-56 on the items the album_tracks call returned.
_get_popular_tracks_from_album(items, limit) ==
  LET popular == Take(PopularOfBatches(items, 0, limit), limit)
  IN [k \in 1..Len(popular) |-> popular[k].id]

\* Line 39 asks for the album's tracks once and follows no next page: the
\* items are the whole album or its first page.
AlbumPages(album) ==
  {album} \cup {Take(album, n) : n \in {PopularityBatch} \cap 1..Len(album)}

InitAlbum ==
  /\ PipelineIdle
  /\ RepliesIdle
  /\ LinkerIdle
  /\ RateIdle
  /\ DirectIdle
  /\ ExistingIdle
  /\ track_ids = {}
  /\ sp_track = <<>>
  /\ remaining = {}
  /\ visited = <<>>
  /\ unique_tracks = <<>>
  /\ track_list = <<>>
  /\ added = <<>>
  /\ batches = <<>>
  /\ remove_duplicates = TRUE
  /\ entry_matches = <<>>
  /\ sample_top_tracks = TRUE
  /\ artist_limit = 0
  /\ contributed = <<>>
  /\ pc = "album"
  /\ album_tracks \in Albums
  /\ album_limit \in 0..MaxLimit
  /\ album_page = <<>>
  /\ popular_tracks = <<>>

\* Lines 39-40.
ListAlbumTracks ==
  /\ pc = "album"
  /\ album_page' \in AlbumPages(album_tracks)
  /\ pc' = "album_listed"
  /\ UNCHANGED <<pipelineVars, replies, linkerVars, rateVars, directVars,
                 track_ids, sp_track, remaining, visited, unique_tracks,
                 track_list, added, batches, remove_duplicates, existingVars,
                 album_tracks, album_limit, popular_tracks, entry_matches,
                 sample_top_tracks, artist_limit, contributed>>

\* Lines 43-56.
ReturnPopularTracks ==
  /\ pc = "album_listed"
  /\ popular_tracks' = _get_popular_tracks_from_album(album_page, album_limit)
  /\ pc' = "album_done"
  /\ UNCHANGED <<pipelineVars, replies, linkerVars, rateVars, directVars,
                 track_ids, sp_track, remaining, visited, unique_tracks,
                 track_list, added, batches, remove_duplicates, existingVars,
                 album_tracks, album_page, album_limit, entry_matches,
                 sample_top_tracks, artist_limit, contributed>>

NextAlbum ==
  \/ ListAlbumTracks
  \/ ReturnPopularTracks

SpecAlbum == InitAlbum /\ [][NextAlbum]_vars

\* ------------------------------------------------------ _extract_track_ids
\* The results file as _extract_track_ids goes through it: the direct
\* tracks and the matches of the entries, each with what Spotify gives when
\* it is looked up ("raise": the call raises, "none": no item, "found": the
\* ids of the first item's track, of the artist's top tracks in Spotify's
\* order, or the listing of the album).
EntryIds == {1, 2}
Sections == <<"spotify_tracks", "songs", "artists", "albums">>

MatchItem(entry, section, kind, ids, album) ==
  [entry |-> entry, section |-> section, kind |-> kind, ids |-> ids, album |-> album]

MatchItems ==
  {MatchItem(en, "spotify_tracks", "links", <<3>>, <<>>) : en \in EntryIds}
    \cup {MatchItem(en, "songs", kind, <<>>, <<>>)
           : en \in EntryIds, kind \in {"raise", "none"}}
    \cup {MatchItem(en, "songs", "found", <<t>>, <<>>) : en \in EntryIds, t \in {1, 2}}
    \cup {MatchItem(en, "artists", kind, <<>>, <<>>)
           : en \in EntryIds, kind \in {"raise", "none", "top_tracks_raise"}}
    \cup {MatchItem(en, "artists", "found", <<1, 2, 3>>, <<>>) : en \in EntryIds}
    \cup {MatchItem(en, "albums", kind, <<>>, <<>>)
           : en \in EntryIds, kind \in {"raise", "none"}}
    \cup {MatchItem(en, "albums", "found", <<>>, AlbumOf(<<20, 80, 50>>)) : en \in EntryIds}

\* Lines 77-134: entry after entry, and in an entry the direct tracks, the
\* songs, the artists, the albums.
SectionRank(section) == CHOOSE k \in 1..Len(Sections) : Sections[k] = section
ItemRank(item) == item.entry * Len(Sections) + SectionRank(item.section)
InFileOrder(items) ==
  \A j, k \in 1..Len(items) : j < k => ItemRank(items[j]) <= ItemRank(items[k])
ResultFiles ==
  {items \in UNION {SeqsOfLen(MatchItems, n) : n \in 0..MaxMatches} : InFileOrder(items)}

\* Lines 24-32.
_get_top_tracks_from_artist(item, limit) ==
  IF item.kind = "top_tracks_raise" THEN <<>> ELSE Take(item.ids, limit)

\* Lines 90-97: the id of the first item of the search, when the search
\* returned one; and a loop that adds an id whatever the search gave.
SongTrackIdsUnguarded(item) == IF item.kind = "found" THEN {item.ids[1]} ELSE {0}
SongTrackIds(item) == IF item.kind = "found" THEN {item.ids[1]} ELSE {}

\* Lines 79-134 for one direct-track list or one match: the ids added to
\* track_ids.  The direct tracks are the dicts main.py:139 stored.
Contribution(item) ==
  CASE item.section = "spotify_tracks" ->
         DirectTrackIds(extract_and_replace_spotify_links(item.ids))
    [] item.section = "songs" -> SongTrackIds(item)
    [] item.section = "artists" ->
         IF sample_top_tracks /\ item.kind \in {"found", "top_tracks_raise"}
         THEN Range(_get_top_tracks_from_artist(item, artist_limit))
         ELSE {}
    [] item.section = "albums" ->
         IF sample_top_tracks /\ item.kind = "found"
         THEN Range(_get_popular_tracks_from_album(item.album, album_limit))
         ELSE {}

InitTracks ==
  /\ PipelineIdle
  /\ RepliesIdle
  /\ LinkerIdle
  /\ RateIdle
  /\ DirectIdle
  /\ ExistingIdle
  /\ track_ids = {}
  /\ sp_track = <<>>
  /\ remaining = {}
  /\ visited = <<>>
  /\ unique_tracks = <<>>
  /\ track_list = <<>>
  /\ added = <<>>
  /\ batches = <<>>
  /\ remove_duplicates = TRUE
  /\ album_tracks = <<>>
  /\ album_page = <<>>
  /\ popular_tracks = <<>>
  /\ pc = "matches"
  /\ entry_matches \in ResultFiles
  /\ sample_top_tracks \in BOOLEAN
  /\ artist_limit \in 0..MaxLimit
  /\ album_limit \in 0..MaxLimit
  /\ contributed = <<>>

\* One direct-track list or one match of the file is processed.
ProcessMatch ==
  /\ pc = "matches"
  /\ Len(contributed) < Len(entry_matches)
  /\ LET ids == Contribution(entry_matches[Len(contributed) + 1])
     IN /\ track_ids' = track_ids \cup ids
        /\ contributed' = Append(contributed, ids)
  /\ UNCHANGED <<pipelineVars, pc, replies, linkerVars, rateVars, directVars,
                 sp_track, remaining, visited, unique_tracks,
                 track_list, added, batches, remove_duplicates, existingVars,
                 album_tracks, album_page, album_limit, popular_tracks,
                 entry_matches, sample_top_tracks, artist_limit>>

\* Line 136.
ReturnCandidates ==
  /\ pc = "matches"
  /\ Len(contributed) = Len(entry_matches)
  /\ pc' = "candidates"
  /\ UNCHANGED <<pipelineVars, replies, auxVars>>

NextTracks ==
  \/ ProcessMatch
  \/ ReturnCandidates

SpecTracks == InitTracks /\ [][NextTracks]_vars

\* ------------------------------------------ deduplicate_existing_playlist
\* The items of the playlist as playlist_tracks and next return them
\* (lines 226-230): an item holds a track or None.
NullItem == [null |-> TRUE, name |-> "", artist |-> "", popularity |-> 0]
PlaylistItem(track_info) ==
  [null |-> FALSE, name |-> track_info.name, artist |-> track_info.artist,
   popularity |-> track_info.popularity]
PlaylistItems == {NullItem} \cup {PlaylistItem(t) : t \in TrackInfos \ {TrackError}}

\* playlist_generator.py:246, the comparison that lets an item take the
\* place of the one seen for its key; and one that also replaces on a tie.
ReplacesSeenOnTie(popularity, seen_popularity) == popularity >= seen_popularity
ReplacesSeen(popularity, seen_popularity) == popularity > seen_popularity

InitExisting ==
  /\ PipelineIdle
  /\ RepliesIdle
  /\ LinkerIdle
  /\ RateIdle
  /\ DirectIdle
  /\ track_ids = {}
  /\ sp_track = <<>>
  /\ remaining = {}
  /\ visited = <<>>
  /\ unique_tracks = <<>>
  /\ track_list = <<>>
  /\ added = <<>>
  /\ batches = <<>>
  /\ remove_duplicates = TRUE
  /\ SampleIdle
  /\ pc = "scan"
  /\ tracks \in UNION {SeqsOfLen(PlaylistItems, n) : n \in 0..MaxPlaylistItems}
  /\ pos = 0
  /\ seen = <<>>
  /\ duplicates = <<>>

\* One iteration of the enumerate loop (lines 236-258); pos is the
\* 0-based position i of the item.
ScanItem ==
  /\ pc = "scan"
  /\ pos < Len(tracks)
  /\ LET item == tracks[pos + 1]
         key == TrackKey(item)
         here == [position |-> pos, popularity |-> item.popularity]
     IN IF item.null
        THEN UNCHANGED <<seen, duplicates>>
        ELSE IF key \in DOMAIN seen
        THEN IF ReplacesSeen(item.popularity, seen[key].popularity)
             THEN /\ duplicates' = Append(duplicates, seen[key].position)
                  /\ seen' = [seen EXCEPT ![key] = here]
             ELSE /\ duplicates' = Append(duplicates, pos)
                  /\ UNCHANGED seen
        ELSE /\ seen' = (key :> here) @@ seen
             /\ UNCHANGED duplicates
  /\ pos' = pos + 1
  /\ UNCHANGED <<pipelineVars, pc, replies, linkerVars, rateVars, directVars,
                 track_ids, sp_track, remaining, visited, unique_tracks,
                 track_list, added, batches, remove_duplicates, tracks, sampleVars>>

\* Lines 261-273: the marked positions are handed to the removal.
RemoveDuplicates ==
  /\ pc = "scan"
  /\ pos = Len(tracks)
  /\ pc' = "deduplicated"
  /\ UNCHANGED <<pipelineVars, replies, auxVars>>

NextExisting ==
  \/ ScanItem
  \/ RemoveDuplicates

SpecExisting == InitExisting /\ [][NextExisting]_vars

\* =================================================================== claims
Last(s) == s[Len(s)]

\* The catalog answered q, and without an error.
Answered(q) == catalog[q].kind \in {"missing", "cands"}
\* The catalog answered q with zero candidates: no result key, or an empty list.
ZeroCandidates(resp) ==
  resp.kind = "missing" \/ (resp.kind = "cands" /\ resp.scores = <<>>)

\* Only the swapped form of song request r resolves: the direct query found
\* nothing and the swapped one found a match.
OnlySwappedSongResolves(r) ==
  /\ r.artist_name # NoArtist
  /\ Answered(SongQuery(r.song_title, r.artist_name))
  /\ ~Truthy(search_song(SongQuery(r.song_title, r.artist_name),
                         catalog[SongQuery(r.song_title, r.artist_name)]))
  /\ Answered(SongQuery(r.artist_name, r.song_title))
  /\ Truthy(search_song(SongQuery(r.artist_name, r.song_title),
                        catalog[SongQuery(r.artist_name, r.song_title)]))

\* What the first call of execute_song_searches returned is bound to the
\* locals of execute_searches from line 11 until line 13 overwrites them.
FirstSongPassReturned == call_no = 1 /\ song_passes = 1

C2_ExchangedArtistFieldIsEmitted ==
  [][/\ (pc = "song_pass" /\ Len(additional_artists') = Len(additional_artists) + 1) =>
          LET before == units[u].song_searches[i]
              after == units'[u].song_searches[i]
          IN /\ after.song_title = before.artist_name
             /\ after.artist_name = before.song_title
             /\ Last(additional_artists') = after.artist_name
             /\ Last(misidentified') = after.song_title
     /\ (pc = "album_pass" /\ Len(additional_artists') = Len(additional_artists) + 1) =>
          LET before == units[u].album_searches[i]
              after == units'[u].album_searches[i]
          IN /\ after.album_title = before.artist_name
             /\ after.artist_name = before.album_title
             /\ Last(additional_artists') = after.artist_name
             /\ Last(misidentified') = after.album_title
    ]_vars

\* C3: in one call of execute_searches a name recorded as misidentified by a
\* successful swap-retry on a song or album request is never passed to the
\* artist lookup.
C3_MisidentifiedNeverLookedUp == looked_up \cap swap_misidentified = {}

\* C4: in one call of execute_searches on fresh requests the names passed to
\* the artist lookup are the explicit artist_searches and the additional
\* artists of the song and album swap-retries, minus the names misidentified
\* during the song and album swaps.
C4_ArtistQuerySet ==
  (pc = "call_return" /\ call_no = 1) =>
    looked_up = (Range(fresh[u].artist_searches) \cup swap_additional)
                  \ swap_misidentified

\* C5: the song-resolution step runs one time per call of execute_searches.
C5_SongsResolvedOnce == pc = "call_return" => song_passes = 1

\* C8: a request whose catalog queries all return zero candidates (an empty
\* list, or a response without the key) yields no match, adds nothing to the
\* resolved set and raises nothing.
C8_ZeroCandidatesNoMatchNoRaise ==
  [][/\ (pc = "song_pass" /\ i <= Len(units[u].song_searches)) =>
          LET search == units[u].song_searches[i]
              q1 == SongQuery(search.song_title, search.artist_name)
              q2 == SongQuery(search.artist_name, search.song_title)
          IN (/\ ZeroCandidates(catalog'[q1])
              /\ search.artist_name # NoArtist => ZeroCandidates(catalog'[q2]))
             => (matches' = matches /\ pc' # "except")
     /\ (pc = "album_pass" /\ i <= Len(units[u].album_searches)) =>
          LET search == units[u].album_searches[i]
              q1 == AlbumQuery(search.album_title, search.artist_name)
              q2 == AlbumQuery(search.artist_name, search.album_title)
          IN (/\ ZeroCandidates(catalog'[q1])
              /\ search.artist_name # NoArtist => ZeroCandidates(catalog'[q2]))
             => (matches' = matches /\ pc' # "except")
     /\ pc = "artist_pass" =>
          \A artist_name \in pending \ pending' :
            ZeroCandidates(catalog'[ArtistQuery(artist_name)])
              => (artist_matches' = artist_matches /\ pc' # "except")
    ]_vars

C8_Witness ==
  /\ pc = "call_return"
  /\ result = NoResult
  /\ \E j \in 1..Len(fresh[u].song_searches) :
       LET r == fresh[u].song_searches[j] IN
       /\ r.artist_name # NoArtist
       /\ catalog[SongQuery(r.song_title, r.artist_name)] = MissingKey
       /\ catalog[SongQuery(r.artist_name, r.song_title)] = Candidates(<<>>)
  /\ \E n \in looked_up : ZeroCandidates(catalog[ArtistQuery(n)])

\* The second call on the same object has returned.
SecondCallReturned == pc = "call_return" /\ call_no = 2

\* C6 as stated: two calls of execute_searches on the same request object
\* with the same frozen catalog answers produce the same resolved sets of
\* artists, songs and albums.
C6_SecondCallSameResult ==
  SecondCallReturned =>
    /\ Range(result.artists) = Range(first_result.artists)
    /\ Range(result.songs) = Range(first_result.songs)
    /\ Range(result.albums) = Range(first_result.albums)

\* C6 as amended: the two calls produce the same resolved sets of songs and
\* albums, and the same resolved set of artists when the first call
\* performed no successful swap-retry.
C6_SecondCallSameSongsAndAlbums ==
  SecondCallReturned =>
    /\ Range(result.songs) = Range(first_result.songs)
    /\ Range(result.albums) = Range(first_result.albums)
    /\ ~first_swapped => Range(result.artists) = Range(first_result.artists)

C6_Witness ==
  /\ SecondCallReturned
  /\ first_swapped
  /\ units # fresh
  /\ result.songs # <<>>
  /\ result.albums # <<>>

\* C7: for a non-empty candidate list _get_top_match returns a candidate with
\* the maximum score, the one at the lowest index among those sharing it; for
\* scores [7,3,9,9] that is index 2.
C7_TopMatchIsFirstMaximum ==
  (pc = "top_done" /\ top_input # <<>>) =>
    /\ top_result \in Range(top_input)
    /\ \A k \in 1..Len(top_input) :
         /\ top_input[k].score <= top_result.score
         /\ top_input[k].score = top_result.score
              => top_result.index <= top_input[k].index
    /\ top_input = Matches(ArtistQuery("Money"), <<7, 3, 9, 9>>)
         => top_result.index = 2

C7_Witness ==
  /\ pc = "top_done"
  /\ top_input = Matches(ArtistQuery("Money"), <<7, 3, 9, 9>>)
  /\ top_result.index = 2

\* C9: a catalog lookup failing with a transport/HTTP error counts as no
\* match for that one request: the error does not propagate out of the
\* resolution of the batch, and every text unit of the batch is resolved.
C9_LookupFailureIsNoMatch ==
  /\ pc # "except"
  /\ (pc = "returned" /\ found) => Len(execution_results) = Len(units)

\* C10: every run of process_submission that found data writes the JSON
\* output artifact, whatever lookup failures occur.
C10_ArtifactAlwaysWritten == (pc = "returned" /\ found) => artifact_written



\* The batch has been extracted (main.py:154 has run).
Extracted == found /\ replies # <<>> /\ pc \notin {"start", "extract"}

SongIteration ==
  pc = "song_pass" /\ i <= Len(units[u].song_searches)
    /\ (i' = i + 1 \/ pc' = "except")
AlbumIteration ==
  pc = "album_pass" /\ i <= Len(units[u].album_searches)
    /\ (i' = i + 1 \/ pc' = "except")

\* What an iteration may send for a request with the given direct and
\* swapped query: the direct query alone without an artist; with one, the
\* direct query and then the swapped query only if the direct one came back
\* without a match.
QueriesAsClaimed(artist_name, direct, swapped, direct_match) ==
  IF artist_name = NoArtist
  THEN last_queries' = <<direct>> /\ direct.artist = NoArtist
  ELSE \/ last_queries' = <<direct>>
       \/ /\ last_queries' = <<direct, swapped>>
          /\ catalog'[direct].kind \in {"missing", "cands"}
          /\ ~Truthy(direct_match)

\* C16: in every pass, the iteration for a request without artist_name
\* issues exactly one query (title only) and no swapped query; the iteration
\* for a request with artist_name issues at most two, the swapped one only
\* after the direct one returned no match.
C16_AtMostTwoQueriesPerRequest ==
  [][(SongIteration =>
        LET search == units[u].song_searches[i]
            q1 == SongQuery(search.song_title, search.artist_name)
            q2 == SongQuery(search.artist_name, search.song_title)
        IN /\ QueriesAsClaimed(search.artist_name, q1, q2,
                               search_song(q1, catalog'[q1]))
           /\ n_queries' = n_queries + Len(last_queries'))
     /\
     (AlbumIteration =>
        LET search == units[u].album_searches[i]
            q1 == AlbumQuery(search.album_title, search.artist_name)
            q2 == AlbumQuery(search.artist_name, search.album_title)
        IN /\ QueriesAsClaimed(search.artist_name, q1, q2,
                               search_album(q1, catalog'[q1]))
           /\ n_queries' = n_queries + Len(last_queries'))
    ]_vars

\* The first song pass went over a request without artist (one query) and
\* then over one with an artist whose direct query found nothing (two).
C16_Witness ==
  /\ pc = "song_pass"
  /\ song_passes = 0
  /\ i = 3
  /\ fresh[1].song_searches[1].artist_name = NoArtist
  /\ fresh[1].song_searches[2].artist_name # NoArtist
  /\ n_queries = 3
  /\ swap_queries = 1
  /\ Len(last_queries) = 2

\* After the step, the catalog has answered q without an error and without
\* a candidate to return.
NoMatchAfter(q, found_match) ==
  /\ catalog'[q].kind \in {"missing", "cands"}
  /\ ~Truthy(found_match)

\* The step left every list of the running pass, the bookkeeping of the
\* call and the requests as they were, and raised nothing.
NothingContributed ==
  /\ matches' = matches
  /\ additional_artists' = additional_artists
  /\ misidentified' = misidentified
  /\ swap_additional' = swap_additional
  /\ swap_misidentified' = swap_misidentified
  /\ units' = units
  /\ pc' = pc

\* C17: an iteration in which neither the direct nor the swapped query
\* returns a match appends nothing to the match list, the additional-artist
\* list or the misidentified list, leaves the request's fields unchanged and
\* raises no error.
C17_UnresolvedRequestContributesNothing ==
  [][(SongIteration =>
        LET search == units[u].song_searches[i]
            q1 == SongQuery(search.song_title, search.artist_name)
            q2 == SongQuery(search.artist_name, search.song_title)
        IN (/\ NoMatchAfter(q1, search_song(q1, catalog'[q1]))
            /\ search.artist_name # NoArtist =>
                 NoMatchAfter(q2, search_song(q2, catalog'[q2])))
           => NothingContributed)
     /\
     (AlbumIteration =>
        LET search == units[u].album_searches[i]
            q1 == AlbumQuery(search.album_title, search.artist_name)
            q2 == AlbumQuery(search.artist_name, search.album_title)
        IN (/\ NoMatchAfter(q1, search_album(q1, catalog'[q1]))
            /\ search.artist_name # NoArtist =>
                 NoMatchAfter(q2, search_album(q2, catalog'[q2])))
           => NothingContributed)
    ]_vars

\* The album pass went over a request with an artist for which both the
\* direct and the swapped query were answered without a match.
C17_Witness ==
  /\ pc = "album_pass"
  /\ i = 2
  /\ units = fresh
  /\ units[1].album_searches[1].artist_name # NoArtist
  /\ units[1].album_searches[1].artist_name # units[1].album_searches[1].album_title
  /\ Len(last_queries) = 2
  /\ catalog[last_queries[1]] = MissingKey
  /\ catalog[last_queries[2]] = Candidates(<<>>)
  /\ matches = <<>>
  /\ additional_artists = <<>>
  /\ misidentified = <<>>

\* Every request of the unit, as extracted, has a direct query the catalog
\* answers with a match.
AllDirectQueriesSucceed ==
  /\ \A k \in 1..Len(fresh[u].song_searches) :
       LET s == fresh[u].song_searches[k]
           q == SongQuery(s.song_title, s.artist_name)
       IN Truthy(search_song(q, catalog[q]))
  /\ \A k \in 1..Len(fresh[u].album_searches) :
       LET s == fresh[u].album_searches[k]
           q == AlbumQuery(s.album_title, s.artist_name)
       IN Truthy(search_album(q, catalog[q]))

\* The top match of the direct query of every song and album request.
DirectSongMatches ==
  [k \in 1..Len(fresh[u].song_searches) |->
     LET s == fresh[u].song_searches[k]
         q == SongQuery(s.song_title, s.artist_name)
     IN search_song(q, catalog[q])]
DirectAlbumMatches ==
  [k \in 1..Len(fresh[u].album_searches) |->
     LET s == fresh[u].album_searches[k]
         q == AlbumQuery(s.album_title, s.artist_name)
     IN search_album(q, catalog[q])]

\* C18: when every direct query succeeds and there are no artist requests,
\* execute_searches returns one song per song request and one album per
\* album request, issues no swapped query, leaves all fields unchanged,
\* records no misidentification and no additional artist, and performs no
\* artist lookup.
C18_DirectHitsResolveOneToOne ==
  (pc = "call_return" /\ call_no = 1 /\ fresh[u].artist_searches = <<>>
     /\ AllDirectQueriesSucceed) =>
    /\ result.songs = DirectSongMatches
    /\ result.albums = DirectAlbumMatches
    /\ result.artists = <<>>
    /\ swap_queries = 0
    /\ units = fresh
    /\ swap_additional = {}
    /\ swap_misidentified = {}
    /\ lookup_log = <<>>

\* A call on one song request and one album request, both found directly.
C18_Witness ==
  /\ pc = "call_return"
  /\ call_no = 1
  /\ fresh[u].artist_searches = <<>>
  /\ Len(fresh[u].song_searches) = 1
  /\ Len(fresh[u].album_searches) = 1
  /\ AllDirectQueriesSucceed
  /\ Len(result.songs) = 1
  /\ Len(result.albums) = 1

\* The matches of the requests the running pass has gone over, in request
\* order: each request by the query of the fields it now holds.
SongMatchesInOrder ==
  SelectSeq([k \in 1..(i - 1) |->
               LET s == units[u].song_searches[k]
                   q == SongQuery(s.song_title, s.artist_name)
               IN search_song(q, catalog[q])],
            Truthy)
AlbumMatchesInOrder ==
  SelectSeq([k \in 1..(i - 1) |->
               LET s == units[u].album_searches[k]
                   q == AlbumQuery(s.album_title, s.artist_name)
               IN search_album(q, catalog[q])],
            Truthy)

\* No two entries of the list come from the same query.
OnePerQuery(list) ==
  \A k, l \in 1..Len(list) : list[k].query = list[l].query => k = l

\* C19: the match list of a song or album pass holds at most one entity per
\* request, in request order; the artist match list holds at most one
\* entity per distinct surviving artist name.
C19_AtMostOneEntityPerRequest ==
  /\ pc = "song_pass" =>
       (Len(matches) <= i - 1 /\ matches = SongMatchesInOrder)
  /\ pc = "album_pass" =>
       (Len(matches) <= i - 1 /\ matches = AlbumMatchesInOrder)
  /\ pc \in {"artist_pass", "call_return"} =>
       /\ Len(song_matches) <= Len(units[u].song_searches)
       /\ Len(album_matches) <= Len(units[u].album_searches)
       /\ Len(artist_matches) <= Cardinality(artists_to_search \ pending)
       /\ OnePerQuery(artist_matches)
       /\ \A k \in 1..Len(artist_matches) :
            artist_matches[k].query.title \in artists_to_search

\* Two song requests resolved, the first one by the swapped query, and
\* returned in request order.
C19_Witness ==
  /\ pc = "call_return"
  /\ call_no = 1
  /\ Len(units[u].song_searches) = 2
  /\ Len(result.songs) = 2
  /\ \A k \in 1..2 :
       result.songs[k].query.title = units[u].song_searches[k].song_title
  /\ units[u].song_searches[1].song_title # units[u].song_searches[2].song_title
  /\ units # fresh

\* The names that survive line 18: those of the additional-artist lists and
\* the explicit artist requests, less the misidentified ones, each compared
\* as an exact string.
SurvivingNames ==
  (Range(additional_artists_from_swapped_songs)
     \cup Range(additional_artists_from_swapped_albums)
     \cup Range(units[u].artist_searches))
    \ (Range(songs_misidentified_as_artists)
         \cup Range(albums_misidentified_as_artists))

\* C20: every distinct surviving artist name is looked up exactly once,
\* however often it occurs among the candidates; names that differ only in
\* letter case are distinct and are looked up separately.
C20_DistinctNamesLookedUpOnce ==
  /\ pc \in {"artist_pass", "call_return"} =>
       /\ \A k, l \in 1..Len(lookup_log) :
            lookup_log[k] = lookup_log[l] => k = l
       /\ Range(lookup_log) = SurvivingNames \ pending
  /\ pc = "call_return" =>
       /\ Range(lookup_log) = SurvivingNames
       /\ Len(lookup_log) = Cardinality(SurvivingNames)

\* Two artist requests that differ only in letter case, each looked up.
C20_Witness ==
  /\ pc = "call_return"
  /\ units[u].artist_searches = <<"Money", "money">>
  /\ Lower("Money") = Lower("money")
  /\ Len(lookup_log) = 2
  /\ Range(lookup_log) = {"Money", "money"}

C12_RequestsSpacedByInterval ==
  \A j, k \in 1..Len(sent) :
    j < k => sent[k] - sent[j] >= min_request_interval

\* C15: every track a text links to, found by
\* extract_and_replace_spotify_links and stored under spotify_tracks, is in
\* the candidate set _extract_track_ids returns.
C15_DirectTracksAreCandidates ==
  pc = "track_ids" =>
    \A k \in 1..Len(link_texts) : Range(link_texts[k]) \subseteq track_ids

\* The place of a candidate in the order the loop reached the candidates.
VisitIndex(track_id) == CHOOSE k \in 1..Len(visited) : visited[k] = track_id

\* C14: with remove_duplicates, the tracks handed to the playlist hold at
\* most one track per key (lower-cased trimmed name, lower-cased trimmed
\* primary artist name); the track kept for a key has the highest
\* popularity among the candidates of that key, and among those tied at
\* the highest it is the one encountered first.
C14_OneMostPopularTrackPerKey ==
  pc = "playlist" =>
    /\ Range(added) \subseteq track_ids
    /\ \A a, b \in 1..Len(added) :
         TrackKey(sp_track[added[a]]) = TrackKey(sp_track[added[b]]) => a = b
    /\ \A kept \in Range(added) :
         /\ ~sp_track[kept].error
         /\ \A c \in track_ids :
              (~sp_track[c].error
                 /\ TrackKey(sp_track[c]) = TrackKey(sp_track[kept])) =>
                /\ sp_track[c].popularity <= sp_track[kept].popularity
                /\ sp_track[c].popularity = sp_track[kept].popularity =>
                     VisitIndex(kept) <= VisitIndex(c)

\* Tracks 1 and 2 have the same key under different spellings and the same
\* popularity; the loop reached 2 first and kept it, next to a third track
\* of another key.
C14_Witness ==
  /\ pc = "playlist"
  /\ track_ids = 1..3
  /\ sp_track[1].name # sp_track[2].name
  /\ TrackKey(sp_track[1]) = TrackKey(sp_track[2])
  /\ sp_track[1].popularity = sp_track[2].popularity
  /\ ~sp_track[1].error
  /\ visited[1] = 2
  /\ Range(added) = {2, 3}

\* C21: two runs of execute_searches on the same input with the same
\* catalog answers return the same matches, the artists list in the same
\* order.
C21_SameOutputAcrossRuns ==
  (pc = "call_return" /\ call_no = 2) => result = first_result

\* C26: for a single sequential caller of one client, a request passes the
\* gate no earlier than min_request_interval after the time recorded for
\* the previous request, and last_request_time never decreases.
C26_SequentialRequestsSpaced ==
  [][/\ \A c \in Clients : last_request_time'[c] >= last_request_time[c]
     /\ \A t \in Callers :
          (tpc[t] = "ready" /\ tpc'[t] = "idle") =>
            /\ now >= last_request_time[client_of[t]] + min_request_interval
            /\ last_request_time'[client_of[t]] = now
            /\ \A k \in 1..Len(sent) : now - sent[k] >= min_request_interval
    ]_vars

\* The caller came back within the second of its first request, slept, and
\* sent the second request one interval after the first.
C26_Witness ==
  /\ Len(sent) = 2
  /\ wake_at[1] = sent[2]
  /\ sent[2] = sent[1] + min_request_interval
  /\ last_request_time[client_of[1]] = sent[2]

\* C28: the Spotify backend's score is 100 at rank 0 and 90 - 10*i at rank
\* i >= 1, strictly decreasing in the rank, so the top match of a non-empty
\* result list is Spotify's first item (and None for an empty list).
C28_SpotifyTopMatchIsFirstItem ==
  pc = "spotify_done" =>
    LET scored == SpotifyMatches(top_input)
    IN /\ \A k \in 1..Len(scored) :
            /\ scored[k].score = (IF k = 1 THEN 100 ELSE 90 - 10 * (k - 1))
            /\ \A j \in 1..(k - 1) : scored[j].score > scored[k].score
       /\ top_input = <<>> => top_result = None
       /\ top_input # <<>> =>
            /\ top_result.index = 0
            /\ top_result.popularity = top_input[1].popularity
            /\ top_result.score = 100

\* Spotify's first item is the least popular of three and is still the top
\* match.
C28_Witness ==
  /\ pc = "spotify_done"
  /\ Len(top_input) = 3
  /\ top_input[1].popularity < top_input[2].popularity
  /\ top_input[2].popularity < top_input[3].popularity
  /\ top_result.index = 0

NonNullPositions == {p \in 0..(Len(tracks) - 1) : ~tracks[p + 1].null}
PositionsOfKey(key) == {p \in NonNullPositions : TrackKey(tracks[p + 1]) = key}
KeptPosition(key) ==
  CHOOSE p \in PositionsOfKey(key) :
    \A q \in PositionsOfKey(key) :
      \/ tracks[q + 1].popularity < tracks[p + 1].popularity
      \/ tracks[q + 1].popularity = tracks[p + 1].popularity /\ q >= p

\* C29: deduplicate_existing_playlist marks exactly the non-null positions
\* that are not the kept representative of their key, the representative
\* being the first position with the highest popularity of the key; no
\* position is marked twice and items without a track are never marked.
C29_MarksAllButKeptRepresentative ==
  pc = "deduplicated" =>
    /\ Range(duplicates) =
         NonNullPositions \ {KeptPosition(TrackKey(tracks[p + 1])) : p \in NonNullPositions}
    /\ \A a, b \in 1..Len(duplicates) : duplicates[a] = duplicates[b] => a = b
    /\ \A p \in Range(duplicates) : ~tracks[p + 1].null
    /\ \A key \in DOMAIN seen : seen[key].position = KeptPosition(key)

\* A playlist with an item without a track and three items of one key, the
\* most popular in the middle: the first and the last are marked.
C29_Witness ==
  /\ pc = "deduplicated"
  /\ Len(tracks) = 4
  /\ tracks[1].null
  /\ duplicates = <<1, 3>>
  /\ tracks[3].name # tracks[4].name

RECURSIVE Flatten(_)
Flatten(seqs) == IF seqs = <<>> THEN <<>> ELSE Head(seqs) \o Flatten(Tail(seqs))

\* C25: the final track list is handed to the playlist in consecutive
\* batches of at most 100: the batches in call order make up the list, so
\* every track is added exactly once; no batch is empty and every batch but
\* the last holds exactly 100 tracks.
C25_BatchesOfHundredCoverList ==
  pc \in {"playlist", "raised"} =>
    /\ Flatten(batches) = added
    /\ Range(added) = track_ids
    /\ Len(added) = Cardinality(track_ids)
    /\ remove_duplicates => added = track_list
    /\ \A b \in 1..Len(batches) :
         /\ Len(batches[b]) >= 1
         /\ Len(batches[b]) <= 100
         /\ b < Len(batches) => Len(batches[b]) = 100

\* C30: a playlist is created only when a track remains to be added, and
\* at least one track is added to every playlist created; when nothing was
\* extracted, or no extracted track's info could be fetched, no playlist is
\* created and None is returned.
C30_NoEmptyPlaylist ==
  /\ pc \in {"adding", "playlist"} =>
       (remove_duplicates => \E t \in track_ids : ~sp_track[t].error)
  /\ pc = "playlist" => added # <<>>
  /\ pc = "none" => track_ids = {}

\* C23: _get_popular_tracks_from_album returns min(album_limit, number of
\* tracks on the album) distinct tracks of the album, whose popularities are
\* the album_limit highest among all tracks of the album, in descending
\* order; none for album_limit = 0.
C23_AlbumLimitMostPopular ==
  pc = "album_done" =>
    LET best == Take(SortedByPopularity(album_tracks, Len(album_tracks)), album_limit)
    IN /\ Len(popular_tracks) =
            (IF album_limit < Len(album_tracks) THEN album_limit ELSE Len(album_tracks))
       /\ \A k \in 1..Len(popular_tracks) :
            /\ popular_tracks[k] \in 1..Len(album_tracks)
            /\ k <= Len(best) =>
                 album_tracks[popular_tracks[k]].popularity = best[k].popularity
       /\ \A j, k \in 1..Len(popular_tracks) :
            popular_tracks[j] = popular_tracks[k] => j = k

\* The matches processed so far.
Processed == 1..Len(contributed)

\* C24: every resolved song contributes at most one track; a song whose
\* track lookup returns nothing or raises contributes none, and every
\* direct-track list and match after it, in its entry and in later entries,
\* is still processed: the candidate set returned is the union of what each
\* of them contributed.
C24_FailedSongLookupIsDropped ==
  /\ \A k \in Processed :
       entry_matches[k].section = "songs" =>
         /\ Cardinality(contributed[k]) <= 1
         /\ entry_matches[k].kind # "found" => contributed[k] = {}
         /\ entry_matches[k].kind = "found" => contributed[k] = {entry_matches[k].ids[1]}
  /\ track_ids = UNION {contributed[k] : k \in Processed}
  /\ pc = "candidates" => Len(contributed) = Len(entry_matches)

\* The lookup of the first song raised and the song of the next entry was
\* still looked up and added.
C24_Witness ==
  /\ pc = "candidates"
  /\ Len(entry_matches) = 2
  /\ entry_matches[1].section = "songs"
  /\ entry_matches[1].kind = "raise"
  /\ entry_matches[2].section = "songs"
  /\ entry_matches[2].entry > entry_matches[1].entry
  /\ track_ids = {entry_matches[2].ids[1]}

\* C22: a resolved artist contributes at most artist_limit tracks, the
\* first of Spotify's top-track order, and none with artist_limit = 0; with
\* sample_top_tracks disabled artists and albums contribute nothing, while
\* the direct tracks and the resolved songs contribute in either case.
C22_ArtistLimitAndSampling ==
  \A k \in Processed :
    LET item == entry_matches[k] IN
    /\ item.section = "artists" =>
         /\ Cardinality(contributed[k]) <= artist_limit
         /\ \E n \in 0..artist_limit : contributed[k] = Range(SubSeq(item.ids, 1, n))
         /\ (sample_top_tracks /\ item.kind = "found") =>
              Cardinality(contributed[k]) =
                (IF artist_limit < Len(item.ids) THEN artist_limit ELSE Len(item.ids))
    /\ (~sample_top_tracks /\ item.section \in {"artists", "albums"}) =>
         contributed[k] = {}
    /\ item.section = "spotify_tracks" => contributed[k] = Range(item.ids)
    /\ (item.section = "songs" /\ item.kind = "found") => contributed[k] = {item.ids[1]}

====
